---- MODULE Spec2Model ----
\* Data Alchemist: the validation engine (validationRules, validateData), the
\* AIParser (parseRuleFromText, generateCorrections, generateRuleRecommendations)
\* and the store/panel handlers that drive them.
\*
\* A JavaScript string is a sequence of one-character strings; a JavaScript value
\* is a tagged record (string, number, NaN, undefined).  Numbers are integers.
EXTENDS Integers, Sequences, FiniteSets, TLC

\* clients, workers, tasks, businessRules, validationResults: the DataStore.
\* suggestions: the ValidationPanel's list; corrections: what its last
\* generateCorrections call returned.  ruleSuggestions: the RulesBuilder's list.
\* naturalLanguageRule: the sentence typed; parsedRule: what parseRuleFromText
\* returned for it.  clock: Date.now().  lastCall: the engine call or handler
\* that ran last, and validationFailed: whether validateData was rejected.
\* page: the state of the DataAlchemist page (its tab, its own copy of the
\* validation results, isProcessing), the files it has downloaded, the text
\* of the last window.alert, and under grid the state of the DataGrid (its
\* tab, searchQuery, editingCell, editValue) and under upload the state of
\* FileUpload (isProcessing, and the onDrop invocations that await a read).
VARIABLES clients, workers, tasks, businessRules, validationResults,
          validationFailed, corrections, suggestions, ruleSuggestions,
          naturalLanguageRule, parsedRule, clock, lastCall, page

vars == <<clients, workers, tasks, businessRules, validationResults,
          validationFailed, corrections, suggestions, ruleSuggestions,
          naturalLanguageRule, parsedRule, clock, lastCall, page>>

\* ---------------------------------------------------------------- JS values

Str(s) == [t |-> "string", s |-> s, n |-> 0]
Num(n) == [t |-> "number", s |-> <<>>, n |-> n]
NaN == [t |-> "NaN", s |-> <<>>, n |-> 0]
Undefined == [t |-> "undefined", s |-> <<>>, n |-> 0]

\* ToBoolean: '' , 0, NaN and undefined are falsy.
Truthy(v) == \/ v.t = "string" /\ v.s # <<>>
             \/ v.t = "number" /\ v.n # 0

Digits == <<"0","1","2","3","4","5","6","7","8","9">>
UpperCase == <<"A","B","C","D","E","F","G","H","I","J","K","L","M",
               "N","O","P","Q","R","S","T","U","V","W","X","Y","Z">>
LowerCase == <<"a","b","c","d","e","f","g","h","i","j","k","l","m",
               "n","o","p","q","r","s","t","u","v","w","x","y","z">>

IsDigit(c) == \E i \in 1..10 : Digits[i] = c
DigitVal(c) == (CHOOSE i \in 1..10 : Digits[i] = c) - 1
IsSpace(c) == c = " "
\* \w of a regular expression: [A-Za-z0-9_]
IsWordChar(c) == \/ IsDigit(c)
                 \/ c = "_"
                 \/ \E i \in 1..26 : UpperCase[i] = c \/ LowerCase[i] = c

LowerOf(c) == IF \E i \in 1..26 : UpperCase[i] = c
              THEN LowerCase[CHOOSE i \in 1..26 : UpperCase[i] = c] ELSE c
UpperOf(c) == IF \E i \in 1..26 : LowerCase[i] = c
              THEN UpperCase[CHOOSE i \in 1..26 : LowerCase[i] = c] ELSE c

\* String.prototype.toLowerCase / toUpperCase
toLowerCase(s) == [i \in 1..Len(s) |-> LowerOf(s[i])]
toUpperCase(s) == [i \in 1..Len(s) |-> UpperOf(s[i])]

RECURSIVE TrimLeft(_)
TrimLeft(s) == IF s # <<>> /\ IsSpace(Head(s)) THEN TrimLeft(Tail(s)) ELSE s
RECURSIVE TrimRight(_)
TrimRight(s) == IF s # <<>> /\ IsSpace(s[Len(s)])
                THEN TrimRight(SubSeq(s, 1, Len(s) - 1)) ELSE s
\* String.prototype.trim
trim(s) == TrimRight(TrimLeft(s))

\* String.prototype.split(sep) for a one-character separator
RECURSIVE split(_, _)
split(s, sep) ==
    IF \A i \in 1..Len(s) : s[i] # sep THEN <<s>>
    ELSE LET k == CHOOSE i \in 1..Len(s) :
                      s[i] = sep /\ \A j \in 1..(i - 1) : s[j] # sep
         IN  <<SubSeq(s, 1, k - 1)>> \o split(SubSeq(s, k + 1, Len(s)), sep)

\* Array.prototype.join(sep)
RECURSIVE join(_, _)
join(items, sep) ==
    IF items = <<>> THEN <<>>
    ELSE IF Len(items) = 1 THEN items[1]
    ELSE items[1] \o sep \o join(Tail(items), sep)

\* String.prototype.includes
includes(s, sub) ==
    \E i \in 0..(Len(s) - Len(sub)) : SubSeq(s, i + 1, i + Len(sub)) = sub

RECURSIVE Concat(_)
Concat(ss) == IF ss = <<>> THEN <<>> ELSE Head(ss) \o Concat(Tail(ss))

\* Decimal digits of a natural number, and Number.prototype.toString
RECURSIVE NatToStr(_)
NatToStr(n) == IF n < 10 THEN <<Digits[n + 1]>>
               ELSE NatToStr(n \div 10) \o <<Digits[(n % 10) + 1]>>
NumToStr(n) == IF n < 0 THEN <<"-">> \o NatToStr(-n) ELSE NatToStr(n)

\* ToStr of a value, as a template literal or String() applies it
ToStr(v) == CASE v.t = "string" -> v.s
                 [] v.t = "number" -> NumToStr(v.n)
                 [] v.t = "NaN" -> <<"N","a","N">>
                 [] OTHER -> <<"u","n","d","e","f","i","n","e","d">>

RECURSIVE DigitsValue(_, _)
DigitsValue(s, acc) == IF s = <<>> THEN acc
                       ELSE DigitsValue(Tail(s), 10 * acc + DigitVal(Head(s)))
RECURSIVE DigitPrefix(_)
DigitPrefix(s) == IF s # <<>> /\ IsDigit(Head(s))
                  THEN <<Head(s)>> \o DigitPrefix(Tail(s)) ELSE <<>>

\* parseInt(x): ToStr, skip leading white space, an optional sign, then the
\* longest prefix of decimal digits; NaN when there is none.
parseInt(v) ==
    LET s0 == TrimLeft(ToStr(v))
        neg == s0 # <<>> /\ Head(s0) = "-"
        s1 == IF s0 # <<>> /\ (Head(s0) = "-" \/ Head(s0) = "+") THEN Tail(s0) ELSE s0
        d == DigitPrefix(s1)
    IN  IF d = <<>> THEN NaN
        ELSE Num(IF neg THEN -DigitsValue(d, 0) ELSE DigitsValue(d, 0))

\* ToNumber, as the relational operators and Math.min/max apply it: a string is
\* trimmed, '' is 0, an optionally signed run of digits is its value, anything
\* else NaN; undefined is NaN.
ToNumber(v) ==
    CASE v.t = "number" -> v
      [] v.t = "NaN" -> NaN
      [] v.t = "undefined" -> NaN
      [] OTHER ->
           LET s0 == trim(v.s)
               neg == s0 # <<>> /\ Head(s0) = "-"
               s1 == IF s0 # <<>> /\ (Head(s0) = "-" \/ Head(s0) = "+")
                     THEN Tail(s0) ELSE s0
           IN  IF s0 = <<>> THEN Num(0)
               ELSE IF s1 # <<>> /\ \A i \in 1..Len(s1) : IsDigit(s1[i])
               THEN Num(IF neg THEN -DigitsValue(s1, 0) ELSE DigitsValue(s1, 0))
               ELSE NaN

\* a < b, a > b, a >= b on values, numerically (one operand is always a number
\* in the source); every comparison with NaN is false.
Less(a, b) == LET x == ToNumber(a)  y == ToNumber(b)
              IN  x.t = "number" /\ y.t = "number" /\ x.n < y.n
Greater(a, b) == Less(b, a)
GreaterEq(a, b) == LET x == ToNumber(a)  y == ToNumber(b)
                   IN  x.t = "number" /\ y.t = "number" /\ x.n >= y.n

\* Math.min(a, b) and Math.max(a, b): NaN if either operand is NaN.
MathMin(a, b) == LET x == ToNumber(a)  y == ToNumber(b)
                 IN  IF x.t = "NaN" \/ y.t = "NaN" THEN NaN
                     ELSE IF x.n < y.n THEN x ELSE y
MathMax(a, b) == LET x == ToNumber(a)  y == ToNumber(b)
                 IN  IF x.t = "NaN" \/ y.t = "NaN" THEN NaN
                     ELSE IF x.n > y.n THEN x ELSE y

\* ---------------------------------------------------------------- JSON.parse
\* A recursive-descent reader of JSON text over the model's characters: white
\* space, integers, strings without escapes, true/false/null, arrays, objects.
\* The result records whether the text is valid, the kind of the value, and for
\* an array its length and whether every element is a number.

JsonFail == [ok |-> FALSE, next |-> 0, kind |-> "none", len |-> 0, nums |-> FALSE]
JsonOk(next, kind, len, nums) ==
    [ok |-> TRUE, next |-> next, kind |-> kind, len |-> len, nums |-> nums]
At(s, i) == IF i >= 1 /\ i <= Len(s) THEN s[i] ELSE "EOF"

RECURSIVE SkipWs(_, _)
SkipWs(s, i) == IF At(s, i) = " " THEN SkipWs(s, i + 1) ELSE i
RECURSIVE SkipDigits(_, _)
SkipDigits(s, i) == IF IsDigit(At(s, i)) THEN SkipDigits(s, i + 1) ELSE i

JsonNumber(s, i) ==
    LET j == IF At(s, i) = "-" THEN i + 1 ELSE i
    IN  IF At(s, j) = "0" THEN JsonOk(j + 1, "number", 0, FALSE)
        ELSE IF IsDigit(At(s, j)) THEN JsonOk(SkipDigits(s, j), "number", 0, FALSE)
        ELSE JsonFail
JsonString(s, i) ==
    IF \E k \in (i + 1)..Len(s) : s[k] = "\""
    THEN LET k == CHOOSE k \in (i + 1)..Len(s) :
                      s[k] = "\"" /\ \A j \in (i + 1)..(k - 1) : s[j] # "\""
         IN  JsonOk(k + 1, "string", 0, FALSE)
    ELSE JsonFail
JsonWord(s, i, word, kind) ==
    IF i + Len(word) - 1 <= Len(s) /\ SubSeq(s, i, i + Len(word) - 1) = word
    THEN JsonOk(i + Len(word), kind, 0, FALSE) ELSE JsonFail

RECURSIVE JsonValue(_, _)
RECURSIVE JsonElements(_, _, _, _)
RECURSIVE JsonMembers(_, _)
JsonValue(s, i) ==
    LET j == SkipWs(s, i)
        c == At(s, j)
    IN  CASE c = "[" ->
               LET k == SkipWs(s, j + 1)
               IN  IF At(s, k) = "]" THEN JsonOk(k + 1, "array", 0, TRUE)
                   ELSE JsonElements(s, k, 0, TRUE)
          [] c = "{" ->
               LET k == SkipWs(s, j + 1)
               IN  IF At(s, k) = "}" THEN JsonOk(k + 1, "object", 0, FALSE)
                   ELSE JsonMembers(s, k)
          [] c = "\"" -> JsonString(s, j)
          [] c = "t" -> JsonWord(s, j, <<"t","r","u","e">>, "boolean")
          [] c = "f" -> JsonWord(s, j, <<"f","a","l","s","e">>, "boolean")
          [] c = "n" -> JsonWord(s, j, <<"n","u","l","l">>, "null")
          [] OTHER -> JsonNumber(s, j)
JsonElements(s, i, n, nums) ==
    LET v == JsonValue(s, i)
        k == SkipWs(s, v.next)
    IN  IF ~v.ok THEN JsonFail
        ELSE IF At(s, k) = "," THEN JsonElements(s, k + 1, n + 1, nums /\ v.kind = "number")
        ELSE IF At(s, k) = "]" THEN JsonOk(k + 1, "array", n + 1, nums /\ v.kind = "number")
        ELSE JsonFail
JsonMembers(s, i) ==
    LET j == SkipWs(s, i)
        key == IF At(s, j) = "\"" THEN JsonString(s, j) ELSE JsonFail
        c == SkipWs(s, key.next)
        v == JsonValue(s, c + 1)
        k == SkipWs(s, v.next)
    IN  IF ~key.ok \/ At(s, c) # ":" THEN JsonFail
        ELSE IF ~v.ok THEN JsonFail
        ELSE IF At(s, k) = "," THEN JsonMembers(s, k + 1)
        ELSE IF At(s, k) = "}" THEN JsonOk(k + 1, "object", 0, FALSE)
        ELSE JsonFail

\* JSON.parse(x): the argument is converted to a string first; ok = FALSE stands
\* for the SyntaxError it throws.
JSONparse(v) ==
    LET s == ToStr(v)
        r == JsonValue(s, 1)
    IN  IF r.ok /\ SkipWs(s, r.next) > Len(s) THEN r ELSE JsonFail

\* ---------------------------------------------------------------- records
\* A row is a record of JavaScript values; a property the row does not have is
\* Undefined.  Column names are TLA+ strings; chars gives a name's characters
\* where the source interpolates it into a string.

chars == [ClientID |-> <<"C","l","i","e","n","t","I","D">>, ClientName |-> <<"C","l","i","e","n","t","N","a","m","e">>,
          PriorityLevel |-> <<"P","r","i","o","r","i","t","y","L","e","v","e","l">>, RequestedTaskIDs |-> <<"R","e","q","u","e","s","t","e","d","T","a","s","k","I","D","s">>,
          GroupTag |-> <<"G","r","o","u","p","T","a","g">>, AttributesJSON |-> <<"A","t","t","r","i","b","u","t","e","s","J","S","O","N">>,
          WorkerID |-> <<"W","o","r","k","e","r","I","D">>, WorkerName |-> <<"W","o","r","k","e","r","N","a","m","e">>, Skills |-> <<"S","k","i","l","l","s">>,
          AvailableSlots |-> <<"A","v","a","i","l","a","b","l","e","S","l","o","t","s">>, MaxLoadPerPhase |-> <<"M","a","x","L","o","a","d","P","e","r","P","h","a","s","e">>,
          WorkerGroup |-> <<"W","o","r","k","e","r","G","r","o","u","p">>, QualificationLevel |-> <<"Q","u","a","l","i","f","i","c","a","t","i","o","n","L","e","v","e","l">>,
          TaskID |-> <<"T","a","s","k","I","D">>, TaskName |-> <<"T","a","s","k","N","a","m","e">>, Category |-> <<"C","a","t","e","g","o","r","y">>,
          Duration |-> <<"D","u","r","a","t","i","o","n">>, RequiredSkills |-> <<"R","e","q","u","i","r","e","d","S","k","i","l","l","s">>,
          PreferredPhases |-> <<"P","r","e","f","e","r","r","e","d","P","h","a","s","e","s">>, MaxConcurrent |-> <<"M","a","x","C","o","n","c","u","r","r","e","n","t">>]

Client(id, name, priority, requested, group, attributes) ==
    [ClientID |-> id, ClientName |-> name, PriorityLevel |-> priority,
     RequestedTaskIDs |-> requested, GroupTag |-> group, AttributesJSON |-> attributes]
Worker(id, name, skills, slots, load, group, level) ==
    [WorkerID |-> id, WorkerName |-> name, Skills |-> skills, AvailableSlots |-> slots,
     MaxLoadPerPhase |-> load, WorkerGroup |-> group, QualificationLevel |-> level]
Task(id, name, category, duration, skills, phases, concurrent) ==
    [TaskID |-> id, TaskName |-> name, Category |-> category, Duration |-> duration,
     RequiredSkills |-> skills, PreferredPhases |-> phases, MaxConcurrent |-> concurrent]

ValidationContext(c, w, t) == [clients |-> c, workers |-> w, tasks |-> t]

\* message and suggestion are a template and the strings interpolated into it;
\* field "" and suggestion NoText stand for a property the result does not have.
Text(text, args) == [text |-> text, args |-> args]
NoText == Text("", <<>>)
ValidationResult(id, type, severity, message, entity, entityId, field, fixable, suggestion) ==
    [id |-> id, type |-> type, severity |-> severity, message |-> message,
     entity |-> entity, entityId |-> entityId, field |-> field, fixable |-> fixable,
     suggestion |-> suggestion]

\* Array.prototype.filter, and the distinct elements of an array in first-
\* occurrence order ([...new Set(a)])
RECURSIVE Distinct(_)
Distinct(a) == IF a = <<>> THEN <<>>
               ELSE LET rest == Distinct(SubSeq(a, 1, Len(a) - 1))
                        x == a[Len(a)]
                    IN  IF \E i \in 1..Len(rest) : rest[i] = x THEN rest
                        ELSE Append(rest, x)
\* Array.prototype.indexOf, 0-based, -1 when absent
indexOf(a, x) == IF \E i \in 1..Len(a) : a[i] = x
                 THEN (CHOOSE i \in 1..Len(a) : a[i] = x /\ \A j \in 1..(i - 1) : a[j] # x) - 1
                 ELSE -1

\* ---------------------------------------------------------------- validationRules

requiredColumns ==
    [clients |-> <<"ClientID", "ClientName", "PriorityLevel", "RequestedTaskIDs",
                   "GroupTag", "AttributesJSON">>,
     workers |-> <<"WorkerID", "WorkerName", "Skills", "AvailableSlots",
                   "MaxLoadPerPhase", "WorkerGroup", "QualificationLevel">>,
     tasks |-> <<"TaskID", "TaskName", "Category", "Duration", "RequiredSkills",
                 "PreferredPhases", "MaxConcurrent">>]

\* entityType === 'clients' ? 'ClientID' : entityType === 'workers' ? 'WorkerID' : 'TaskID'
idFieldOf(entityType) ==
    IF entityType = "clients" THEN "ClientID"
    ELSE IF entityType = "workers" THEN "WorkerID" ELSE "TaskID"

\* entityType.slice(0, -1): the entity type without its last character
sliceLast(entityType) ==
    CASE entityType = "clients" -> "client"
      [] entityType = "workers" -> "worker"
      [] entityType = "tasks" -> "task"

\* 1. Missing required columns
missingRequiredColumns(data, entityType) ==
    LET required == requiredColumns[entityType]
        Missing(col) == ~ \E i \in 1..Len(data) : data[i][col] # Undefined
        missing == SelectSeq(required, Missing)
    IN  [k \in 1..Len(missing) |->
            ValidationResult(<<"m","i","s","s","i","n","g","-">> \o chars[missing[k]], "missing_required_column",
                "error", Text("Missing required column: ${col}", <<chars[missing[k]]>>),
                entityType, Undefined, missing[k], FALSE, NoText)]

\* the repeated occurrences, one entry for each of them
repeatsOf(ids) ==
    LET dupIdx == SelectSeq([i \in 1..Len(ids) |-> i], LAMBDA i : indexOf(ids, ids[i]) # i - 1)
    IN  [k \in 1..Len(dupIdx) |-> ids[dupIdx[k]]]

\* [...new Set(ids.filter((id, index) => ids.indexOf(id) !== index))]
duplicatesOf(ids) ==
    LET dupIdx == SelectSeq([i \in 1..Len(ids) |-> i], LAMBDA i : indexOf(ids, ids[i]) # i - 1)
    IN  Distinct([k \in 1..Len(dupIdx) |-> ids[dupIdx[k]]])

\* 2. Duplicate IDs
duplicateIDs(data, entityType) ==
    LET idField == idFieldOf(entityType)
        ids == SelectSeq([i \in 1..Len(data) |-> data[i][idField]], Truthy)
        duplicates == duplicatesOf(ids)
    IN  [k \in 1..Len(duplicates) |->
            ValidationResult(<<"d","u","p","l","i","c","a","t","e","-">> \o ToStr(duplicates[k]), "duplicate_id", "error",
                Text("Duplicate ID found: ${id}", <<ToStr(duplicates[k])>>),
                sliceLast(entityType), duplicates[k], idField, TRUE,
                Text("Remove or change the duplicate ID (${id})", <<ToStr(duplicates[k])>>))]

listFields == [clients |-> <<"RequestedTaskIDs">>,
               workers |-> <<"Skills">>,
               tasks |-> <<"RequiredSkills", "PreferredPhases">>]

\* 3. Malformed lists: the results of one row (index is 0-based)
malformedListsRow(row, index, entityType) ==
    LET slots == JSONparse(row.AvailableSlots)
        slotResult(text) ==
            ValidationResult(<<"m","a","l","f","o","r","m","e","d","-","s","l","o","t","s","-">> \o NumToStr(index), "malformed_list", "error",
                Text(text, <<>>), "worker", row.WorkerID, "AvailableSlots", TRUE,
                Text("Format as JSON array, e.g., [1, 3, 5]", <<>>))
        slotResults ==
            IF entityType = "workers" /\ Truthy(row.AvailableSlots)
            THEN IF ~slots.ok THEN <<slotResult("Invalid JSON in AvailableSlots")>>
                 ELSE IF ~(slots.kind = "array") \/ ~slots.nums
                 THEN <<slotResult("AvailableSlots must be a JSON array of numbers")>>
                 ELSE <<>>
            ELSE <<>>
        fields == listFields[entityType]
        fieldResults(field) ==
            IF Truthy(row[field]) /\ row[field].t = "string"
            THEN LET raw == split(row[field].s, ",")
                     items == [k \in 1..Len(raw) |-> trim(raw[k])]
                 IN  IF \E k \in 1..Len(items) : items[k] = <<>>
                     THEN <<ValidationResult(
                              <<"m","a","l","f","o","r","m","e","d","-","l","i","s","t","-">> \o chars[field] \o <<"-">> \o NumToStr(index),
                              "malformed_list", "warning",
                              Text("Empty items in ${field} list", <<chars[field]>>),
                              entityType, row[idFieldOf(entityType)], field, TRUE,
                              Text("Remove empty items from the list", <<>>))>>
                     ELSE <<>>
            ELSE <<>>
    IN  slotResults \o Concat([k \in 1..Len(fields) |-> fieldResults(fields[k])])

malformedLists(data, entityType) ==
    Concat([i \in 1..Len(data) |-> malformedListsRow(data[i], i - 1, entityType)])

\* isNaN(priority) || priority < 1 || priority > 5, and isNaN(x) || x < 1
priorityOutOfRange(priority) == priority = NaN \/ priority.n < 1 \/ priority.n > 5
belowOne(x) == x = NaN \/ x.n < 1

\* 4. Out-of-range values: the results of one row
outOfRangeValuesRow(row, index, entityType) ==
    LET priority == parseInt(row.PriorityLevel)
        duration == parseInt(row.Duration)
        load == parseInt(row.MaxLoadPerPhase)
    IN  (IF entityType = "clients" /\ Truthy(row.PriorityLevel)
            /\ priorityOutOfRange(priority)
         THEN <<ValidationResult(<<"p","r","i","o","r","i","t","y","-","r","a","n","g","e","-">> \o NumToStr(index), "out_of_range", "error",
                    Text("PriorityLevel must be between 1 and 5", <<>>),
                    "client", row.ClientID, "PriorityLevel", TRUE,
                    Text("Set PriorityLevel to a value between 1 and 5", <<>>))>>
         ELSE <<>>)
        \o
        (IF entityType = "tasks" /\ Truthy(row.Duration)
            /\ belowOne(duration)
         THEN <<ValidationResult(<<"d","u","r","a","t","i","o","n","-","r","a","n","g","e","-">> \o NumToStr(index), "out_of_range", "error",
                    Text("Duration must be at least 1", <<>>),
                    "task", row.TaskID, "Duration", TRUE,
                    Text("Set Duration to a value of 1 or greater", <<>>))>>
         ELSE <<>>)
        \o
        (IF entityType = "workers" /\ Truthy(row.MaxLoadPerPhase)
            /\ belowOne(load)
         THEN <<ValidationResult(<<"l","o","a","d","-","r","a","n","g","e","-">> \o NumToStr(index), "out_of_range", "error",
                    Text("MaxLoadPerPhase must be at least 1", <<>>),
                    "worker", row.WorkerID, "MaxLoadPerPhase", TRUE,
                    Text("Set MaxLoadPerPhase to a value of 1 or greater", <<>>))>>
         ELSE <<>>)

outOfRangeValues(data, entityType) ==
    Concat([i \in 1..Len(data) |-> outOfRangeValuesRow(data[i], i - 1, entityType)])

\* 5. Broken JSON
brokenJSON(data, entityType) ==
    LET rowResults(row, index) ==
            IF entityType = "clients" /\ Truthy(row.AttributesJSON)
               /\ ~JSONparse(row.AttributesJSON).ok
            THEN <<ValidationResult(<<"b","r","o","k","e","n","-","j","s","o","n","-">> \o NumToStr(index), "broken_json", "error",
                       Text("Invalid JSON in AttributesJSON", <<>>),
                       "client", row.ClientID, "AttributesJSON", TRUE,
                       Text("Fix JSON syntax or use {} for empty attributes", <<>>))>>
            ELSE <<>>
    IN  Concat([i \in 1..Len(data) |-> rowResults(data[i], i - 1)])

\* x.split(...) on a value that has no split method (a number, undefined)
\* throws a TypeError; only strings have one.
HasSplit(v) == v.t = "string"

\* 6. Unknown references.  unknownReferencesThrows: the call ends in a TypeError
\* (a truthy RequestedTaskIDs that is not a string).
unknownReferencesThrows(context) ==
    \E i \in 1..Len(context.clients) :
        /\ Truthy(context.clients[i].RequestedTaskIDs)
        /\ ~HasSplit(context.clients[i].RequestedTaskIDs)

\* every listed id taken for unknown, whatever the Tasks collection holds
isListedTask(taskId, taskIds) == taskId # <<>>

\* taskId && !taskIds.has(taskId)
isUnknownTask(taskId, taskIds) == taskId # <<>> /\ Str(taskId) \notin taskIds

unknownReferences(context) ==
    LET taskIds == {context.tasks[i].TaskID : i \in 1..Len(context.tasks)}
        clientResults(client) ==
            IF Truthy(client.RequestedTaskIDs) /\ HasSplit(client.RequestedTaskIDs)
            THEN LET raw == split(client.RequestedTaskIDs.s, ",")
                     requestedTasks == [k \in 1..Len(raw) |-> trim(raw[k])]
                     taskResults(taskId) ==
                         IF isUnknownTask(taskId, taskIds)
                         THEN <<ValidationResult(
                                  <<"u","n","k","n","o","w","n","-","t","a","s","k","-">> \o ToStr(client.ClientID) \o <<"-">> \o taskId,
                                  "unknown_reference", "error",
                                  Text("Client requests unknown task: ${taskId}", <<taskId>>),
                                  "client", client.ClientID, "RequestedTaskIDs", TRUE,
                                  Text("Remove ${taskId} from RequestedTaskIDs or create task ${taskId}",
                                       <<taskId, taskId>>))>>
                         ELSE <<>>
                 IN  Concat([k \in 1..Len(requestedTasks) |-> taskResults(requestedTasks[k])])
            ELSE <<>>
    IN  Concat([i \in 1..Len(context.clients) |-> clientResults(context.clients[i])])

\* 7. Skill coverage
skillCoverageThrows(context) ==
    \/ \E i \in 1..Len(context.workers) :
           Truthy(context.workers[i].Skills) /\ ~HasSplit(context.workers[i].Skills)
    \/ \E i \in 1..Len(context.tasks) :
           Truthy(context.tasks[i].RequiredSkills) /\ ~HasSplit(context.tasks[i].RequiredSkills)

\* the tags of a comma-separated list: split, trimmed, lower-cased
skillTags(s) == LET raw == split(s, ",")
                IN  [k \in 1..Len(raw) |-> toLowerCase(trim(raw[k]))]

skillCoverage(context) ==
    LET workerSkills ==
            UNION {IF Truthy(context.workers[i].Skills) /\ HasSplit(context.workers[i].Skills)
                   THEN {skillTags(context.workers[i].Skills.s)[k] :
                            k \in 1..Len(skillTags(context.workers[i].Skills.s))}
                   ELSE {} : i \in 1..Len(context.workers)}
        taskResults(task) ==
            IF Truthy(task.RequiredSkills) /\ HasSplit(task.RequiredSkills)
            THEN LET requiredSkills == skillTags(task.RequiredSkills.s)
                     Uncovered(skill) == skill \notin workerSkills
                     missingSkills == SelectSeq(requiredSkills, Uncovered)
                 IN  IF Len(missingSkills) > 0
                     THEN <<ValidationResult(<<"m","i","s","s","i","n","g","-","s","k","i","l","l","s","-">> \o ToStr(task.TaskID),
                                "skill_coverage", "error",
                                Text("No workers have required skills: ${missingSkills}",
                                     <<join(missingSkills, <<","," ">>)>>),
                                "task", task.TaskID, "RequiredSkills", TRUE,
                                Text("Add workers with skills: ${missingSkills} or modify task requirements",
                                     <<join(missingSkills, <<","," ">>)>>))>>
                     ELSE <<>>
            ELSE <<>>
    IN  Concat([i \in 1..Len(context.tasks) |-> taskResults(context.tasks[i])])

\* 8. Overloaded workers
overloadedWorkers(context) ==
    LET workerResults(worker) ==
            LET slots == JSONparse(worker.AvailableSlots)
            IN  IF Truthy(worker.AvailableSlots) /\ slots.ok /\ slots.kind = "array"
                   /\ Less(Num(slots.len), worker.MaxLoadPerPhase)
                THEN <<ValidationResult(<<"o","v","e","r","l","o","a","d","e","d","-">> \o ToStr(worker.WorkerID),
                           "overloaded_worker", "warning",
                           Text("Worker has fewer available slots (${slots}) than max load (${load})",
                                <<NumToStr(slots.len), ToStr(worker.MaxLoadPerPhase)>>),
                           "worker", worker.WorkerID, "AvailableSlots", TRUE,
                           Text("Increase AvailableSlots or decrease MaxLoadPerPhase", <<>>))>>
                ELSE <<>>
    IN  Concat([i \in 1..Len(context.workers) |-> workerResults(context.workers[i])])

\* Array.prototype.filter(...).length
Count(a, Test(_)) == Cardinality({i \in 1..Len(a) : Test(a[i])})

\* runAIValidation rejects when w.Skills.split throws: Skills is read of every
\* worker, without a guard.
runAIValidationThrows(context) ==
    \E i \in 1..Len(context.workers) : ~HasSplit(context.workers[i].Skills)

runAIValidation(context) ==
    LET HighPriority(c) == GreaterEq(c.PriorityLevel, Num(4))
        LowSkill(w) == HasSplit(w.Skills) /\ Len(split(w.Skills.s, ",")) < 2
        LongTask(t) == Greater(t.Duration, Num(3))
        ShortPhase(w) == LET slots == JSONparse(w.AvailableSlots)
                         IN  slots.ok /\ slots.kind = "array" /\ slots.len < 3
        aiResult(name, message, suggestion) ==
            ValidationResult(<<"a","i","-">> \o name, "ai_pattern", "warning", Text(message, <<>>),
                             "client", Undefined, "", FALSE, Text(suggestion, <<>>))
    IN  (IF Count(context.clients, HighPriority) > 0
            /\ 2 * Count(context.workers, LowSkill) > Len(context.workers)
         THEN <<aiResult(<<"h","i","g","h","_","p","r","i","o","r","i","t","y","_","l","o","w","_","s","k","i","l","l","s">>,
                         "High priority clients but many low-skill workers",
                         "Consider adding more skilled workers or training existing ones")>>
         ELSE <<>>)
        \o
        (IF Count(context.tasks, LongTask) > 0 /\ Count(context.workers, ShortPhase) > 0
         THEN <<aiResult(<<"t","a","s","k","_","d","u","r","a","t","i","o","n","_","m","i","s","m","a","t","c","h">>,
                         "Long tasks but workers with limited phase availability",
                         "Consider adjusting task durations or worker availability")>>
         ELSE <<>>)

\* Main validation function.  validateDataThrows: the promise is rejected.
validateDataThrows(context) ==
    \/ unknownReferencesThrows(context)
    \/ skillCoverageThrows(context)
    \/ runAIValidationThrows(context)

validateData(context) ==
       missingRequiredColumns(context.clients, "clients")
    \o missingRequiredColumns(context.workers, "workers")
    \o missingRequiredColumns(context.tasks, "tasks")
    \o duplicateIDs(context.clients, "clients")
    \o duplicateIDs(context.workers, "workers")
    \o duplicateIDs(context.tasks, "tasks")
    \o malformedLists(context.clients, "clients")
    \o malformedLists(context.workers, "workers")
    \o malformedLists(context.tasks, "tasks")
    \o outOfRangeValues(context.clients, "clients")
    \o outOfRangeValues(context.workers, "workers")
    \o outOfRangeValues(context.tasks, "tasks")
    \o brokenJSON(context.clients, "clients")
    \o unknownReferences(context)
    \o skillCoverage(context)
    \o overloadedWorkers(context)
    \o runAIValidation(context)

\* ---------------------------------------------------------------- AIParser

\* confidence is in tenths (0.9 is 9); data holds the action's payload.
AISuggestion(id, type, message, confidence, action, data) ==
    [id |-> id, type |-> type, message |-> message, confidence |-> confidence,
     action |-> action, data |-> data]

\* a clamp that bounds the value from above only
clampPriorityFromAbove(v) == MathMin(Num(5), v)

\* Math.max(1, Math.min(5, client.PriorityLevel))
clampPriority(v) == MathMax(Num(1), MathMin(Num(5), v))

\* AI-powered data corrections
generateCorrections(data) ==
    LET clientSuggestions(client) ==
            (IF Truthy(client.PriorityLevel)
                /\ (Less(client.PriorityLevel, Num(1)) \/ Greater(client.PriorityLevel, Num(5)))
             THEN <<AISuggestion(<<"f","i","x","-","p","r","i","o","r","i","t","y","-">> \o ToStr(client.ClientID), "correction",
                        Text("Fix PriorityLevel for ${ClientName}", <<ToStr(client.ClientName)>>),
                        9, "fix_priority",
                        [clientId |-> client.ClientID,
                         suggestedValue |-> clampPriority(client.PriorityLevel)])>>
             ELSE <<>>)
            \o
            (IF Truthy(client.AttributesJSON) /\ client.AttributesJSON # Str(<<"{","}">>)
                /\ ~JSONparse(client.AttributesJSON).ok
             THEN <<AISuggestion(<<"f","i","x","-","j","s","o","n","-">> \o ToStr(client.ClientID), "correction",
                        Text("Fix JSON syntax for ${ClientName}", <<ToStr(client.ClientName)>>),
                        8, "fix_json",
                        [clientId |-> client.ClientID, suggestedValue |-> Str(<<"{","}">>)])>>
             ELSE <<>>)
        workerSuggestions(worker) ==
            (IF Truthy(worker.AvailableSlots)
                /\ (~JSONparse(worker.AvailableSlots).ok
                    \/ JSONparse(worker.AvailableSlots).kind # "array")
             THEN <<AISuggestion(<<"f","i","x","-","s","l","o","t","s","-">> \o ToStr(worker.WorkerID), "correction",
                        Text(IF JSONparse(worker.AvailableSlots).ok
                             THEN "Fix AvailableSlots format for ${WorkerName}"
                             ELSE "Fix AvailableSlots JSON for ${WorkerName}",
                             <<ToStr(worker.WorkerName)>>),
                        9, "fix_slots",
                        [workerId |-> worker.WorkerID, suggestedValue |-> Str(<<"[","1",",","2",",","3",",","4",",","5","]">>)])>>
             ELSE <<>>)
            \o
            (IF Truthy(worker.MaxLoadPerPhase) /\ Less(worker.MaxLoadPerPhase, Num(1))
             THEN <<AISuggestion(<<"f","i","x","-","l","o","a","d","-">> \o ToStr(worker.WorkerID), "correction",
                        Text("Fix MaxLoadPerPhase for ${WorkerName}", <<ToStr(worker.WorkerName)>>),
                        9, "fix_load",
                        [workerId |-> worker.WorkerID, suggestedValue |-> Num(1)])>>
             ELSE <<>>)
        taskSuggestions(task) ==
            (IF Truthy(task.Duration) /\ Less(task.Duration, Num(1))
             THEN <<AISuggestion(<<"f","i","x","-","d","u","r","a","t","i","o","n","-">> \o ToStr(task.TaskID), "correction",
                        Text("Fix Duration for ${TaskName}", <<ToStr(task.TaskName)>>),
                        9, "fix_duration",
                        [taskId |-> task.TaskID, suggestedValue |-> Num(1)])>>
             ELSE <<>>)
            \o
            (IF Truthy(task.MaxConcurrent) /\ Less(task.MaxConcurrent, Num(1))
             THEN <<AISuggestion(<<"f","i","x","-","c","o","n","c","u","r","r","e","n","t","-">> \o ToStr(task.TaskID), "correction",
                        Text("Fix MaxConcurrent for ${TaskName}", <<ToStr(task.TaskName)>>),
                        9, "fix_concurrent",
                        [taskId |-> task.TaskID, suggestedValue |-> Num(1)])>>
             ELSE <<>>)
    IN  Concat([i \in 1..Len(data.clients) |-> clientSuggestions(data.clients[i])])
        \o Concat([i \in 1..Len(data.workers) |-> workerSuggestions(data.workers[i])])
        \o Concat([i \in 1..Len(data.tasks) |-> taskSuggestions(data.tasks[i])])

\* The characters of the model in UTF-16 code unit order, and the order
\* Array.prototype.sort() puts strings in by default.
CodeOrder == <<" ", "\"", "+", ",", "-", ".">> \o Digits \o <<":">> \o UpperCase
             \o <<"[", "]", "_">> \o LowerCase \o <<"{", "}">>
CharCode(c) == CHOOSE i \in 1..Len(CodeOrder) : CodeOrder[i] = c
RECURSIVE StrLess(_, _)
StrLess(a, b) ==
    IF b = <<>> THEN FALSE
    ELSE IF a = <<>> THEN TRUE
    ELSE IF Head(a) = Head(b) THEN StrLess(Tail(a), Tail(b))
    ELSE CharCode(Head(a)) < CharCode(Head(b))
\* [a, b].sort()
sortPair(a, b) == IF StrLess(b, a) THEN <<b, a>> ELSE <<a, b>>

\* a + b: string concatenation as soon as one operand is a string
Plus(a, b) == IF a.t = "string" \/ b.t = "string" THEN Str(ToStr(a) \o ToStr(b))
              ELSE IF a.t = "number" /\ b.t = "number" THEN Num(a.n + b.n)
              ELSE NaN

\* the keys of taskPairs, one entry per increment, in the order of the loops
taskPairKeys(clientRows) ==
    LET clientPairs(client) ==
            IF Truthy(client.RequestedTaskIDs) /\ HasSplit(client.RequestedTaskIDs)
            THEN LET raw == split(client.RequestedTaskIDs.s, ",")
                     trimmed == [k \in 1..Len(raw) |-> trim(raw[k])]
                     NonEmpty(t) == t # <<>>
                     ts == SelectSeq(trimmed, NonEmpty)
                 IN  Concat([i \in 1..Len(ts) |->
                        [d \in 1..(Len(ts) - i) |-> join(sortPair(ts[i], ts[i + d]), <<"-">>)]])
            ELSE <<>>
    IN  Concat([i \in 1..Len(clientRows) |-> clientPairs(clientRows[i])])

\* the entries of groupLoads in insertion order
groupLoads(workerRows) ==
    LET grouped == SelectSeq(workerRows, LAMBDA w : Truthy(w.WorkerGroup))
        groups == Distinct([i \in 1..Len(grouped) |-> grouped[i].WorkerGroup])
        slotsOf(w) == LET slots == JSONparse(w.AvailableSlots)
                      IN  IF slots.ok /\ slots.kind = "array" THEN slots.len ELSE 0
        RECURSIVE total(_, _)
        total(group, n) ==
            IF n = 0 THEN [totalSlots |-> 0, maxLoad |-> Num(0)]
            ELSE LET current == total(group, n - 1)
                     w == grouped[n]
                 IN  IF w.WorkerGroup # group THEN current
                     ELSE [totalSlots |-> current.totalSlots + slotsOf(w),
                           maxLoad |-> Plus(current.maxLoad,
                                            IF Truthy(w.MaxLoadPerPhase)
                                            THEN w.MaxLoadPerPhase ELSE Num(0))]
    IN  [k \in 1..Len(groups) |-> [group |-> groups[k], load |-> total(groups[k], Len(grouped))]]

\* generateRuleRecommendations rejects when RequestedTaskIDs.split throws.
generateRuleRecommendationsThrows(data) ==
    \E i \in 1..Len(data.clients) :
        /\ Truthy(data.clients[i].RequestedTaskIDs)
        /\ ~HasSplit(data.clients[i].RequestedTaskIDs)

\* AI rule recommendations
generateRuleRecommendations(data) ==
    LET keys == taskPairKeys(data.clients)
        taskPairs == Distinct(keys)
        count(pair) == Cardinality({i \in 1..Len(keys) : keys[i] = pair})
        Frequent(pair) == count(pair) >= 2
        frequent == SelectSeq(taskPairs, Frequent)
        coRun(pair) ==
            LET parts == split(pair, "-")
                task1 == parts[1]
                task2 == parts[2]
            IN  AISuggestion(<<"c","o","-","r","u","n","-","r","e","c","-">> \o task1 \o <<"-">> \o task2, "rule",
                    Text("Tasks ${task1} and ${task2} are frequently requested together. Consider adding a co-run rule.",
                         <<task1, task2>>),
                    7, "add_co_run_rule", [tasks |-> <<task1, task2>>])
        loads == groupLoads(data.workers)
        Overloaded(e) == Greater(e.load.maxLoad, Num(e.load.totalSlots * 2))
        overloaded == SelectSeq(loads, Overloaded)
        loadLimit(e) ==
            AISuggestion(<<"l","o","a","d","-","l","i","m","i","t","-","r","e","c","-">> \o ToStr(e.group), "rule",
                Text("${group} workers are overloaded. Consider adding a load limit rule.",
                     <<ToStr(e.group)>>),
                8, "add_load_limit_rule",
                [group |-> e.group, suggestedLimit |-> (e.load.totalSlots * 3) \div 2])
    IN  [k \in 1..Len(frequent) |-> coRun(frequent[k])]
        \o [k \in 1..Len(overloaded) |-> loadLimit(overloaded[k])]

\* ---------------------------------------------------------------- parseRuleFromText
\* The regular expressions of parseRuleFromText, each by what it matches.

HasAt(s, i, sub) == i >= 1 /\ i + Len(sub) - 1 <= Len(s) /\ SubSeq(s, i, i + Len(sub) - 1) = sub

\* the last index of the run of digits (\d+), of word characters (\w+), that
\* starts at i
RECURSIVE DigitRunEnd(_, _)
DigitRunEnd(s, i) == IF i < Len(s) /\ IsDigit(s[i + 1]) THEN DigitRunEnd(s, i + 1) ELSE i
RECURSIVE WordRunEnd(_, _)
WordRunEnd(s, i) == IF i < Len(s) /\ IsWordChar(s[i + 1]) THEN WordRunEnd(s, i + 1) ELSE i

NoMatch == [found |-> FALSE, groups |-> <<>>]
Match(groups) == [found |-> TRUE, groups |-> groups]

\* /(\w+)<suffix>/ and /(\d+)<suffix>/ for a suffix that starts with a blank: the
\* leftmost run of word characters, of digits, that the suffix follows; its
\* group is the run.
matchWordThen(s, suffix) ==
    LET starts == {i \in 1..Len(s) : IsWordChar(s[i]) /\ HasAt(s, WordRunEnd(s, i) + 1, suffix)}
        i == CHOOSE k \in starts : \A j \in starts : k <= j
    IN  IF starts = {} THEN NoMatch ELSE Match(<<SubSeq(s, i, WordRunEnd(s, i))>>)
matchDigitsThen(s, suffix) ==
    LET starts == {i \in 1..Len(s) : IsDigit(s[i]) /\ HasAt(s, DigitRunEnd(s, i) + 1, suffix)}
        i == CHOOSE k \in starts : \A j \in starts : k <= j
    IN  IF starts = {} THEN NoMatch ELSE Match(<<SubSeq(s, i, DigitRunEnd(s, i))>>)

\* normalizedText.match(/t(\d+)/g): every match, left to right, not overlapping
RECURSIVE matchAllTaskIds(_, _)
matchAllTaskIds(s, i) ==
    IF i > Len(s) THEN <<>>
    ELSE IF s[i] = "t" /\ IsDigit(At(s, i + 1))
    THEN <<SubSeq(s, i, DigitRunEnd(s, i + 1))>>
         \o matchAllTaskIds(s, DigitRunEnd(s, i + 1) + 1)
    ELSE matchAllTaskIds(s, i + 1)

\* normalizedText.match(/phases? (\d+)-(\d+)/)
matchPhases(s) ==
    LET digitsFrom(i) ==      \* where the digits start, given "phase" at i
            IF HasAt(s, i, <<"p","h","a","s","e","s"," ">>) THEN i + 7
            ELSE IF HasAt(s, i, <<"p","h","a","s","e"," ">>) THEN i + 6 ELSE 0
        Matches(i) == /\ digitsFrom(i) # 0
                      /\ IsDigit(At(s, digitsFrom(i)))
                      /\ At(s, DigitRunEnd(s, digitsFrom(i)) + 1) = "-"
                      /\ IsDigit(At(s, DigitRunEnd(s, digitsFrom(i)) + 2))
        starts == {i \in 1..Len(s) : Matches(i)}
        i == CHOOSE k \in starts : \A j \in starts : k <= j
        a == digitsFrom(i)
        b == DigitRunEnd(s, a) + 2
    IN  IF starts = {} THEN NoMatch
        ELSE Match(<<SubSeq(s, a, DigitRunEnd(s, a)), SubSeq(s, b, DigitRunEnd(s, b))>>)

Null == [type |-> "null"]
BusinessRule(id, type, enabled, description, parameters) ==
    [id |-> id, type |-> type, enabled |-> enabled, description |-> description,
     parameters |-> parameters]

\* a co-run intent content with one task id
coRunRuleOneTask(text, now) ==
    LET normalizedText == toLowerCase(text)
        taskMatches == matchAllTaskIds(normalizedText, 1)
    IN  IF /\ includes(normalizedText, <<"r","u","n"," ","t","o","g","e","t","h","e","r">>) \/ includes(normalizedText, <<"m","u","s","t"," ","r","u","n">>)
           /\ Len(taskMatches) >= 1
        THEN BusinessRule(<<"c","o","-","r","u","n","-">> \o NumToStr(now), "coRun", TRUE, text,
                 [tasks |-> [k \in 1..Len(taskMatches) |-> toUpperCase(taskMatches[k])]])
        ELSE Null

\* The four intents of parseRuleFromText: the rule an intent returns, or Null
\* when its trigger phrase or one of its tokens is missing.
coRunRule(text, now) ==
    LET normalizedText == toLowerCase(text)
        taskMatches == matchAllTaskIds(normalizedText, 1)
    IN  IF /\ includes(normalizedText, <<"r","u","n"," ","t","o","g","e","t","h","e","r">>) \/ includes(normalizedText, <<"m","u","s","t"," ","r","u","n">>)
           /\ Len(taskMatches) >= 2
        THEN BusinessRule(<<"c","o","-","r","u","n","-">> \o NumToStr(now), "coRun", TRUE, text,
                 [tasks |-> [k \in 1..Len(taskMatches) |-> toUpperCase(taskMatches[k])]])
        ELSE Null

slotRestrictionRule(text, now) ==
    LET normalizedText == toLowerCase(text)
        groupMatch == matchWordThen(normalizedText, <<" ","w","o","r","k","e","r","s">>)
        slotMatch == matchDigitsThen(normalizedText, <<" ","s","l","o","t","s">>)
    IN  IF /\ includes(normalizedText, <<"l","i","m","i","t">>) /\ includes(normalizedText, <<"s","l","o","t","s">>)
           /\ groupMatch.found /\ slotMatch.found
        THEN BusinessRule(<<"s","l","o","t","-","r","e","s","t","r","i","c","t","i","o","n","-">> \o NumToStr(now), "slotRestriction", TRUE, text,
                 [group |-> groupMatch.groups[1], maxSlots |-> parseInt(Str(slotMatch.groups[1]))])
        ELSE Null

phaseWindowRule(text, now) ==
    LET normalizedText == toLowerCase(text)
        taskMatches == matchAllTaskIds(normalizedText, 1)
        phaseMatch == matchPhases(normalizedText)
    IN  IF /\ includes(normalizedText, <<"o","n","l","y"," ","r","u","n">>) /\ includes(normalizedText, <<"p","h","a","s","e">>)
           /\ Len(taskMatches) >= 1 /\ phaseMatch.found
        THEN BusinessRule(<<"p","h","a","s","e","-","w","i","n","d","o","w","-">> \o NumToStr(now), "phaseWindow", TRUE, text,
                 [taskId |-> toUpperCase(taskMatches[1]),
                  phases |-> <<parseInt(Str(phaseMatch.groups[1])),
                               parseInt(Str(phaseMatch.groups[2]))>>])
        ELSE Null

loadLimitRule(text, now) ==
    LET normalizedText == toLowerCase(text)
        groupMatch == matchWordThen(normalizedText, <<" ","w","o","r","k","e","r","s">>)
        loadMatch == matchDigitsThen(normalizedText, <<" ","p","e","r"," ","p","h","a","s","e">>)
    IN  IF /\ includes(normalizedText, <<"l","o","a","d">>) /\ includes(normalizedText, <<"l","i","m","i","t">>)
           /\ groupMatch.found /\ loadMatch.found
        THEN BusinessRule(<<"l","o","a","d","-","l","i","m","i","t","-">> \o NumToStr(now), "loadLimit", TRUE, text,
                 [group |-> groupMatch.groups[1], maxLoad |-> parseInt(Str(loadMatch.groups[1]))])
        ELSE Null

\* the intents tried from the last to the first
parseRuleLastIntentFirst(text, now) ==
    IF loadLimitRule(text, now) # Null THEN loadLimitRule(text, now)
    ELSE IF phaseWindowRule(text, now) # Null THEN phaseWindowRule(text, now)
    ELSE IF slotRestrictionRule(text, now) # Null THEN slotRestrictionRule(text, now)
    ELSE coRunRule(text, now)

\* Natural language to business rule converter; now is Date.now().  The
\* intents are tried in the order of the source, the first rule returned.
parseRuleFromText(text, now) ==
    IF coRunRule(text, now) # Null THEN coRunRule(text, now)
    ELSE IF slotRestrictionRule(text, now) # Null THEN slotRestrictionRule(text, now)
    ELSE IF phaseWindowRule(text, now) # Null THEN phaseWindowRule(text, now)
    ELSE loadLimitRule(text, now)

\* ---------------------------------------------------------------- DataStore

\* { ...row, ...updates }
merge(row, updates) == [k \in DOMAIN row |-> IF k \in DOMAIN updates THEN updates[k] ELSE row[k]]

updateClient(rows, id, updates) ==
    [i \in 1..Len(rows) |-> IF rows[i].ClientID = id THEN merge(rows[i], updates) ELSE rows[i]]
updateWorker(rows, id, updates) ==
    [i \in 1..Len(rows) |-> IF rows[i].WorkerID = id THEN merge(rows[i], updates) ELSE rows[i]]
updateTask(rows, id, updates) ==
    [i \in 1..Len(rows) |-> IF rows[i].TaskID = id THEN merge(rows[i], updates) ELSE rows[i]]

\* ---------------------------------------------------------------- handlers

store == ValidationContext(clients, workers, tasks)

\* DataAlchemist.handleValidationComplete(results): the page after the call
handleValidationComplete(results) ==
    [page EXCEPT !.validationResults = results,
                 !.activeTab = IF results = <<>> /\ @ = "upload" THEN "data" ELSE @]

\* FileUpload.onDrop, its validation step: validateData on the store's
\* collections, the result stored; a rejection is caught and logged.
Validate ==
    /\ IF validateDataThrows(store)
       THEN validationFailed' = TRUE /\ UNCHANGED <<validationResults, page>>
       ELSE /\ validationFailed' = FALSE /\ validationResults' = validateData(store)
            /\ page' = handleValidationComplete(validationResults')
    /\ lastCall' = "validateData"
    /\ UNCHANGED <<clients, workers, tasks, businessRules, corrections, suggestions,
                   ruleSuggestions, naturalLanguageRule, parsedRule, clock>>

\* a generation that also writes the clamped priorities into the client rows
handleGenerateAndApply ==
    /\ corrections' = generateCorrections(store)
    /\ suggestions' = corrections'
    /\ clients' = [i \in 1..Len(clients) |->
                      merge(clients[i], [f \in {"PriorityLevel"} |->
                                            clampPriority(clients[i].PriorityLevel)])]
    /\ lastCall' = "generateCorrections"
    /\ UNCHANGED <<page, workers, tasks, businessRules, validationResults,
                   validationFailed, ruleSuggestions, naturalLanguageRule, parsedRule, clock>>

\* ValidationPanel.handleGenerateSuggestions
handleGenerateSuggestions ==
    /\ corrections' = generateCorrections(store)
    /\ suggestions' = corrections'
    /\ lastCall' = "generateCorrections"
    /\ UNCHANGED <<page, clients, workers, tasks, businessRules, validationResults,
                   validationFailed, ruleSuggestions, naturalLanguageRule, parsedRule, clock>>

\* ValidationPanel.handleApplySuggestion(suggestions[k])
handleApplySuggestion(k) ==
    LET s == suggestions[k]
        Other(sug) == sug.id # s.id
    IN  /\ clients' =
              IF s.action = "fix_priority"
              THEN updateClient(clients, s.data.clientId,
                                [f \in {"PriorityLevel"} |-> s.data.suggestedValue])
              ELSE IF s.action = "fix_json"
              THEN updateClient(clients, s.data.clientId,
                                [f \in {"AttributesJSON"} |-> s.data.suggestedValue])
              ELSE clients
        /\ workers' =
              IF s.action = "fix_slots"
              THEN updateWorker(workers, s.data.workerId,
                                [f \in {"AvailableSlots"} |-> s.data.suggestedValue])
              ELSE IF s.action = "fix_load"
              THEN updateWorker(workers, s.data.workerId,
                                [f \in {"MaxLoadPerPhase"} |-> s.data.suggestedValue])
              ELSE workers
        /\ tasks' =
              IF s.action = "fix_duration"
              THEN updateTask(tasks, s.data.taskId,
                              [f \in {"Duration"} |-> s.data.suggestedValue])
              ELSE IF s.action = "fix_concurrent"
              THEN updateTask(tasks, s.data.taskId,
                              [f \in {"MaxConcurrent"} |-> s.data.suggestedValue])
              ELSE tasks
        /\ suggestions' = SelectSeq(suggestions, Other)
        /\ lastCall' = "handleApplySuggestion"
        /\ UNCHANGED <<page, businessRules, validationResults, validationFailed, corrections,
                       ruleSuggestions, naturalLanguageRule, parsedRule, clock>>

ApplySuggestion == \E k \in 1..Len(suggestions) : handleApplySuggestion(k)

\* RulesBuilder, the effect that runs generateRuleRecommendations; a rejection
\* is caught and logged, the list kept.
generateRuleSuggestions ==
    /\ IF generateRuleRecommendationsThrows(store) THEN UNCHANGED ruleSuggestions
       ELSE ruleSuggestions' = generateRuleRecommendations(store)
    /\ lastCall' = "generateRuleRecommendations"
    /\ UNCHANGED <<page, clients, workers, tasks, businessRules, validationResults,
                   validationFailed, corrections, suggestions, naturalLanguageRule,
                   parsedRule, clock>>

\* A call parseRuleFromText(naturalLanguageRule, data)
ParseSentence ==
    /\ parsedRule' = parseRuleFromText(naturalLanguageRule, clock)
    /\ lastCall' = "parseRuleFromText"
    /\ UNCHANGED <<page, clients, workers, tasks, businessRules, validationResults,
                   validationFailed, corrections, suggestions, ruleSuggestions,
                   naturalLanguageRule, clock>>

\* ---------------------------------------------------------------- inputs

\* the sequences over S of a length in lo..hi
SeqsOf(S, lo, hi) == UNION {[1..n -> S] : n \in lo..hi}

\* the state after construction, but for the collections and the sentence
InitWith(c, w, t, sentence) ==
    /\ clients = c /\ workers = w /\ tasks = t
    /\ businessRules = <<>> /\ validationResults = <<>> /\ validationFailed = FALSE
    /\ corrections = <<>> /\ suggestions = <<>> /\ ruleSuggestions = <<>>
    /\ naturalLanguageRule = sentence /\ parsedRule = Null
    /\ clock = 0 /\ lastCall = "none"
    /\ page = [activeTab |-> "upload", validationResults |-> <<>>, isProcessing |-> FALSE,
               downloads |-> {}, alert |-> "",
               grid |-> [activeTab |-> "clients", searchQuery |-> <<>>, editingCell |-> Null,
                         editValue |-> <<>>],
               upload |-> [isProcessing |-> FALSE, pending |-> <<>>]]

\* rows of an imported file: every column present, the ones not named empty
clientRow(id, priority, requested, attributes) ==
    Client(id, Str(<<"A","c","m","e">>), priority, requested, Str(<<>>), attributes)
workerRow(id, skills, slots, load, group) ==
    Worker(id, Str(<<"A","n","n">>), skills, slots, load, group, Str(<<"3">>))
taskRow(id, duration, skills, concurrent) ==
    Task(id, Str(<<"B","u","i","l","d">>), Str(<<>>), duration, skills, Str(<<>>), concurrent)

\* the results of one type among a list of ValidationResults
OfType(results, type) == SelectSeq(results, LAMBDA r : r.type = type)

\* ---------------------------------------------------------------- unknown references

MaxRefRows == 2

RefRequests == {Str(<<>>), Str(<<"T","1">>), Str(<<"T","9">>), Str(<<"T","1",",","T","9">>), Str(<<"T","9",",","T","9">>),
                Str(<<" ","T","9"," ",","," ","T","8",",","T","9">>)}
RefClients == {clientRow(Str(id), Str(<<"3">>), req, Str(<<"{","}">>)) :
                  id \in {<<"C","1">>, <<"C","2">>}, req \in RefRequests}
RefTasks == {taskRow(Str(id), Str(<<"2">>), Str(<<>>), Str(<<"1">>)) : id \in {<<"T","1">>, <<"T","9">>}}

InitRefs == \E c \in SeqsOf(RefClients, 1, MaxRefRows), t \in SeqsOf(RefTasks, 0, MaxRefRows) :
                InitWith(c, <<>>, t, <<>>)
SpecRefs == InitRefs /\ [][Validate]_vars

\* the task ids a client lists: RequestedTaskIDs split on commas, trimmed,
\* without the empty items
requestedIds(client) ==
    LET raw == split(client.RequestedTaskIDs.s, ",")
    IN  {trim(raw[k]) : k \in 1..Len(raw)} \ {<<>>}
knownTaskIds == {tasks[i].TaskID.s : i \in 1..Len(tasks)}

\* the unknown_reference results for client id cid and task id tid
unknownRefsFor(cid, tid) ==
    SelectSeq(OfType(validationResults, "unknown_reference"),
              LAMBDA r : r.entityId = cid /\ r.message.args = <<tid>>)

\* C1: after validateData, every (client, missing id) pair has exactly one
\* unknown_reference result (as many results for a ClientID and a missing id as
\* there are client rows of that ClientID listing it), and a known id has none.
C1_OneUnknownReferencePerPair ==
    lastCall = "validateData" /\ ~validationFailed =>
        \A i \in 1..Len(clients) : \A tid \in requestedIds(clients[i]) :
            Len(unknownRefsFor(clients[i].ClientID, tid)) =
                IF tid \in knownTaskIds THEN 0
                ELSE Cardinality({j \in 1..Len(clients) :
                        clients[j].ClientID = clients[i].ClientID
                        /\ tid \in requestedIds(clients[j])})

\* ---------------------------------------------------------------- co-run recommendations

MaxCoRunRows == 2

CoRunRequests == {Str(<<>>), Str(<<"T","1">>), Str(<<"T","1",",","T","2">>), Str(<<"T","2",","," ","T","1">>), Str(<<"T","1",",","T","2",",","T","1">>),
                  Str(<<"T","3",",","T","3">>), Str(<<"T","3"," ",",","T","1",",",",","T","2">>)}
CoRunClients == {clientRow(Str(id), Str(<<"3">>), req, Str(<<"{","}">>)) :
                    id \in {<<"C","1">>, <<"C","2">>}, req \in CoRunRequests}

InitCoRun == \E c \in SeqsOf(CoRunClients, 1, MaxCoRunRows) : InitWith(c, <<>>, <<>>, <<>>)
SpecCoRun == InitCoRun /\ [][generateRuleSuggestions]_vars

allRequestedIds == UNION {requestedIds(clients[i]) : i \in 1..Len(clients)}
coRunSuggestions == SelectSeq(ruleSuggestions, LAMBDA s : s.action = "add_co_run_rule")

\* C2: a co-run suggestion is emitted for the unordered pair {A,B} of distinct
\* task ids if and only if at least two clients each list both A and B, and none
\* is emitted for a pair of an id with itself.
C2_CoRunIffTwoClients ==
    lastCall = "generateRuleRecommendations" =>
        /\ \A a \in allRequestedIds : \A b \in allRequestedIds \ {a} :
              (\E k \in 1..Len(coRunSuggestions) :
                    {coRunSuggestions[k].data.tasks[1], coRunSuggestions[k].data.tasks[2]} = {a, b})
              <=> Cardinality({i \in 1..Len(clients) :
                      a \in requestedIds(clients[i]) /\ b \in requestedIds(clients[i])}) >= 2
        /\ \A k \in 1..Len(coRunSuggestions) :
              coRunSuggestions[k].data.tasks[1] # coRunSuggestions[k].data.tasks[2]

\* ---------------------------------------------------------------- corrections

MaxCorrRows == 2

CorrClients == {clientRow(Str(id), f[1], Str(<<>>), f[2]) :
                   id \in {<<"C","1">>, <<"C","2">>},
                   f \in {<<Num(0), Str(<<"{","}">>)>>, <<Num(3), Str(<<"n","o","t","-","j","s","o","n">>)>>,
                          <<Num(9), Str(<<"{","}">>)>>, <<Num(-2), Str(<<"[","1",",","2">>)>>,
                          <<Str(<<"7">>), Str(<<>>)>>, <<Str(<<"4","x">>), Str(<<"{","\"","a","\"",":","1","}">>)>>}}
CorrWorkers == {workerRow(Str(<<"W","1">>), Str(<<"s","q","l">>), f[1], f[2], Str(<<>>)) :
                   f \in {<<Str(<<"[","1",",","2",",","3","]">>), Num(2)>>, <<Str(<<"b","a","d">>), Num(0)>>,
                          <<Str(<<"5">>), Num(-1)>>, <<Str(<<"[","1",",","\"","a","\"","]">>), Str(<<"0">>)>>,
                          <<Str(<<>>), Str(<<"-","3">>)>>}}
CorrTasks == {taskRow(Str(<<"T","1">>), f[1], Str(<<>>), f[2]) :
                 f \in {<<Num(2), Num(1)>>, <<Num(-1), Num(0)>>,
                        <<Str(<<"0">>), Num(-2)>>, <<Str(<<"a","b","c">>), Str(<<"-","1">>)>>}}
corrClient0 == clientRow(Str(<<"C","1">>), Num(7), Str(<<>>), Str(<<"{","}">>))
corrWorker0 == workerRow(Str(<<"W","1">>), Str(<<"s","q","l">>), Str(<<"b","a","d">>), Num(2), Str(<<>>))

InitCorrections ==
    \/ \E c \in SeqsOf(CorrClients, 1, MaxCorrRows) : InitWith(c, <<corrWorker0>>, <<>>, <<>>)
    \/ \E w \in SeqsOf(CorrWorkers, 1, MaxCorrRows) : InitWith(<<corrClient0>>, w, <<>>, <<>>)
    \/ \E t \in SeqsOf(CorrTasks, 1, MaxCorrRows) : InitWith(<<>>, <<corrWorker0>>, t, <<>>)
NextCorrections == handleGenerateSuggestions \/ ApplySuggestion
SpecCorrections == InitCorrections /\ [][NextCorrections]_vars

prioritySuggestions == SelectSeq(corrections, LAMBDA s : s.action = "fix_priority")
IntegerPriority(client) == client.PriorityLevel.t = "number"
clamp(n) == IF n < 1 THEN 1 ELSE IF n > 5 THEN 5 ELSE n

\* C3: for every client whose PriorityLevel is an integer, a fix_priority
\* suggestion is emitted if and only if the value lies outside 1..5, and its
\* suggestedValue is the value clamped into [1,5].
C3_PriorityCorrectionClamps ==
    lastCall = "generateCorrections" =>
        /\ \A i \in 1..Len(clients) :
              IntegerPriority(clients[i]) /\ clients[i].PriorityLevel.n \notin 1..5 =>
                 \E k \in 1..Len(prioritySuggestions) :
                    /\ prioritySuggestions[k].data.clientId = clients[i].ClientID
                    /\ prioritySuggestions[k].data.suggestedValue
                          = Num(clamp(clients[i].PriorityLevel.n))
        /\ \A k \in 1..Len(prioritySuggestions) :
              \E i \in 1..Len(clients) :
                 /\ clients[i].ClientID = prioritySuggestions[k].data.clientId
                 /\ ~(IntegerPriority(clients[i]) /\ clients[i].PriorityLevel.n \in 1..5)

\* the results of the field validators on the store's collections
fieldValidatorResults ==
    malformedLists(clients, "clients") \o malformedLists(workers, "workers")
    \o malformedLists(tasks, "tasks") \o outOfRangeValues(clients, "clients")
    \o outOfRangeValues(workers, "workers") \o outOfRangeValues(tasks, "tasks")
    \o brokenJSON(clients, "clients")

\* the entity id and the field a correction suggestion targets
targetId(s) == CASE s.action \in {"fix_priority", "fix_json"} -> s.data.clientId
                 [] s.action \in {"fix_slots", "fix_load"} -> s.data.workerId
                 [] OTHER -> s.data.taskId
targetField(s) == CASE s.action = "fix_priority" -> "PriorityLevel"
                    [] s.action = "fix_json" -> "AttributesJSON"
                    [] s.action = "fix_slots" -> "AvailableSlots"
                    [] s.action = "fix_load" -> "MaxLoadPerPhase"
                    [] s.action = "fix_duration" -> "Duration"
                    [] OTHER -> "MaxConcurrent"

AllApplied == lastCall = "handleApplySuggestion" /\ suggestions = <<>>

\* C4: once every suggestion generateCorrections returned has been applied, the
\* field validators report nothing for an (entity id, field) a suggestion targeted.
C4_RoundTrip ==
    AllApplied =>
        \A k \in 1..Len(corrections) :
            ~ \E j \in 1..Len(fieldValidatorResults) :
                  /\ fieldValidatorResults[j].entityId = targetId(corrections[k])
                  /\ fieldValidatorResults[j].field = targetField(corrections[k])

\* several suggestions were applied, two of them for client rows sharing an id
C4_Witness ==
    /\ AllApplied
    /\ Len(corrections) >= 3
    /\ \E k \in 1..Len(corrections) : \E i, j \in 1..Len(clients) :
          /\ i # j
          /\ corrections[k].action = "fix_priority"
          /\ clients[i].ClientID = corrections[k].data.clientId
          /\ clients[j].ClientID = corrections[k].data.clientId

\* ---------------------------------------------------------------- end-to-end scenario

\* a field the row does not define is undefined (absent = Undefined) or, as a
\* parsed file delivers it, the empty string (absent = Str(<<>>))
scenarioClient(priority, requested, attributes, absent) ==
    Client(Str(<<"C","1">>), absent, priority, requested, absent, attributes)
scenarioTask(skills, absent) ==
    Task(Str(<<"T","1">>), absent, absent, Str(<<"2">>), skills, absent, absent)
scenarioWorker == workerRow(Str(<<"W","1">>), Str(<<"s","q","l">>), Str(<<"[","1",",","2","]">>), Num(2), Str(<<"o","p","s">>))

InitScenario ==
    \E priority \in {Str(<<"7">>), Str(<<"3">>), Num(7)},
       requested \in {Str(<<"T","1",",","T","9">>), Str(<<"T","1">>)},
       attributes \in {Str(<<"n","o","t","-","j","s","o","n">>), Str(<<"{","}">>)},
       skills \in {Str(<<"s","q","l">>), Str(<<>>)},
       w \in {<<>>, <<scenarioWorker>>},
       absent \in {Undefined, Str(<<>>)} :
          InitWith(<<scenarioClient(priority, requested, attributes, absent)>>, w,
                   <<scenarioTask(skills, absent)>>, <<>>)
NextScenario == Validate \/ handleGenerateSuggestions
SpecScenario == InitScenario /\ [][NextScenario]_vars

\* the snapshot: Clients=[{ClientID:"C1",PriorityLevel:"7",RequestedTaskIDs:"T1,T9",
\* AttributesJSON:"not-json"}], Tasks=[{TaskID:"T1",Duration:"2",RequiredSkills:"sql"}],
\* Workers=[]
IsScenario ==
    /\ clients = <<scenarioClient(Str(<<"7">>), Str(<<"T","1",",","T","9">>), Str(<<"n","o","t","-","j","s","o","n">>), Undefined)>>
    /\ tasks = <<scenarioTask(Str(<<"s","q","l">>), Undefined)>>
    /\ workers = <<>>

errorsOf(results) == SelectSeq(results, LAMBDA r : r.severity = "error")

\* what a list of ValidationResults says: type, entity id, field, and the
\* strings its message interpolates
briefOf(results) ==
    [k \in 1..Len(results) |->
        <<results[k].type, results[k].entityId, results[k].field, results[k].message.args>>]
suggestedOf(list) ==
    [k \in 1..Len(list) |-> <<list[k].action, list[k].data.clientId, list[k].data.suggestedValue>>]

fourErrors ==
    <<<<"out_of_range", Str(<<"C","1">>), "PriorityLevel", <<>>>>,
      <<"broken_json", Str(<<"C","1">>), "AttributesJSON", <<>>>>,
      <<"unknown_reference", Str(<<"C","1">>), "RequestedTaskIDs", <<<<"T","9">>>>>>,
      <<"skill_coverage", Str(<<"T","1">>), "RequiredSkills", <<<<"s","q","l">>>>>>>>
twoCorrections ==
    <<<<"fix_priority", Str(<<"C","1">>), Num(5)>>, <<"fix_json", Str(<<"C","1">>), Str(<<"{","}">>)>>>>

\* C5, as stated: on the snapshot validateData returns exactly the four
\* errors (out-of-range PriorityLevel, broken JSON, unknown reference T9,
\* skill-coverage gap "sql") and no other error, and generateCorrections
\* exactly PriorityLevel->5 and AttributesJSON->"{}" for C1.
C5_ExactlyFourErrors ==
    IsScenario =>
        /\ lastCall = "validateData" =>
              ~validationFailed /\ briefOf(errorsOf(validationResults)) = fourErrors
        /\ lastCall = "generateCorrections" => suggestedOf(corrections) = twoCorrections

\* C5, amended: on the snapshot validateData returns, besides one
\* missing_required_column error for each of the 13 columns no row defines,
\* exactly the four errors; generateCorrections returns exactly the two suggestions.
C5_FourErrorsBesidesMissingColumns ==
    IsScenario =>
        /\ lastCall = "validateData" =>
              /\ ~validationFailed
              /\ briefOf(SelectSeq(errorsOf(validationResults),
                     LAMBDA r : r.type # "missing_required_column")) = fourErrors
              /\ Len(OfType(errorsOf(validationResults), "missing_required_column")) = 13
        /\ lastCall = "generateCorrections" => suggestedOf(corrections) = twoCorrections

\* the snapshot was validated and then asked for corrections
C5_Witness ==
    IsScenario /\ lastCall = "generateCorrections" /\ Len(validationResults) > 4

\* ---------------------------------------------------------------- duplicate ids

MaxDupRows == 3

DupClients == {clientRow(Str(id), Str(<<"3">>), Str(<<>>), Str(<<"{","}">>)) : id \in {<<"A","1">>, <<"B","2">>, <<>>}}
DupWorkers == {workerRow(Str(<<"W","1">>), Str(<<"s","q","l">>), Str(<<"[","1",",","2","]">>), Num(1), Str(<<>>))}
DupTasks == {taskRow(Str(id), Str(<<"2">>), Str(<<>>), Str(<<"1">>)) : id \in {<<"T","1">>, <<>>}}

InitDup == \E c \in SeqsOf(DupClients, 0, MaxDupRows), w \in SeqsOf(DupWorkers, 0, MaxDupRows),
              t \in SeqsOf(DupTasks, 0, MaxDupRows) : InitWith(c, w, t, <<>>)
SpecDup == InitDup /\ [][Validate]_vars

\* the identifier values of a collection, row by row
idsOf(rows, idField) == [i \in 1..Len(rows) |-> rows[i][idField]]
occurrences(ids, v) == Cardinality({i \in 1..Len(ids) : ids[i] = v})
duplicateResultsFor(entity, v) ==
    SelectSeq(validationResults,
              LAMBDA r : r.type = "duplicate_id" /\ r.entity = entity /\ r.entityId = v)

\* one duplicate_id result (id duplicate-<value>, error, fixable) for the value
\* when it is in more than one row, none when it is in one
OneDuplicateResult(entity, ids, v) ==
    LET found == duplicateResultsFor(entity, v)
    IN  IF occurrences(ids, v) > 1
        THEN /\ Len(found) = 1
             /\ found[1].id = <<"d","u","p","l","i","c","a","t","e","-">> \o v.s
             /\ found[1].severity = "error"
             /\ found[1].fixable
        ELSE found = <<>>

Validated == lastCall = "validateData" /\ ~validationFailed

MaxSkillRows == 2

SkillLists == {Str(<<"j","a","v","a","s","c","r","i","p","t",","," ","p","y","t","h","o","n">>), Str(<<"S","Q","L">>), Str(<<>>), Str(<<"g","o">>)}
RequiredLists == {Str(<<"J","a","v","a","S","c","r","i","p","t">>), Str(<<"s","q","l">>), Str(<<" ","P","y","t","h","o","n"," ",",","g","o">>), Str(<<>>), Str(<<"g","o",",">>)}
SkillWorkers == {workerRow(Str(<<"W","1">>), skills, Str(<<"[","1",",","2","]">>), Num(1), Str(<<>>)) :
                    skills \in SkillLists}
SkillTasks == {taskRow(Str(id), Str(<<"2">>), skills, Str(<<"1">>)) :
                  id \in {<<"T","1">>, <<"T","2">>}, skills \in RequiredLists}

InitSkills == \E w \in SeqsOf(SkillWorkers, 0, MaxSkillRows), t \in SeqsOf(SkillTasks, 1, MaxSkillRows) :
                 InitWith(<<>>, w, t, <<>>)
SpecSkills == InitSkills /\ [][Validate]_vars

\* the tags a comma-separated field lists, compared without case and
\* surrounding blanks
tagsOf(field) ==
    {toLowerCase(trim(split(field, ",")[k])) : k \in 1..Len(split(field, ","))} \ {<<>>}
allWorkerTags == UNION {tagsOf(workers[i].Skills.s) : i \in 1..Len(workers)}
missingTags(task) == tagsOf(task.RequiredSkills.s) \ allWorkerTags
tasksWithGap == SelectSeq(tasks, LAMBDA task : missingTags(task) # {})

\* C7: skillCoverage returns, for every Task, exactly one skill_coverage error
\* attributed to it and listing the missing tags if and only if its
\* RequiredSkills tags minus all Workers' Skills tags, compared lower-cased
\* and trimmed, is non-empty.
C7_SkillCoverageIffMissing ==
    Validated =>
        LET found == OfType(validationResults, "skill_coverage")
        IN  /\ Len(found) = Len(tasksWithGap)
            /\ \A k \in 1..Len(found) :
                  /\ found[k].severity = "error"
                  /\ found[k].entityId = tasksWithGap[k].TaskID
                  /\ tagsOf(found[k].message.args[1]) = missingTags(tasksWithGap[k])

\* ---------------------------------------------------------------- field types

\* fields that are strings (the empty one included), numbers or absent
TypedTexts == {Str(<<"T","1",",","s","q","l">>), Str(<<>>), Num(7), Num(0), Undefined}
TypedSlots == {Str(<<"[","1",",","2","]">>), Num(5), Undefined}
TypedPriorities == {Num(3), Str(<<>>), Undefined}

InitTypes ==
    \E requested \in TypedTexts, priority \in TypedPriorities, required \in TypedTexts,
       w \in {<<>>} \cup {<<workerRow(Str(<<"W","1">>), skills, slots, Num(1), Str(<<>>))>> :
                             skills \in TypedTexts, slots \in TypedSlots} :
          InitWith(<<clientRow(Str(<<"C","1">>), priority, requested, Str(<<"{","}">>))>>, w,
                   <<taskRow(Str(<<"T","1">>), Num(2), required, Num(1))>>, <<>>)
SpecTypes == InitTypes /\ [][Validate]_vars

\* C8: validateData never raises: whatever strings, numbers or absent fields
\* the rows hold, the call completes and returns a list of ValidationResults.
C8_ValidateNeverRaises == lastCall = "validateData" => ~validationFailed

\* ---------------------------------------------------------------- sentences

MaxFragments == 2

\* The sentences are fragments joined by blanks.  A fragment is listed with
\* what it holds: the trigger phrases (words), the task ids, the worker groups,
\* the slot counts, the phase ranges and the loads per phase.
Fragment(text, words, taskIds, groups, slots, phases, loads) ==
    [text |-> text, words |-> words, taskIds |-> taskIds, groups |-> groups,
     slots |-> slots, phases |-> phases, loads |-> loads]
Fragments == <<
    Fragment(<<"T","a","s","k","s"," ","T","1"," ","a","n","d"," ","t","2","2"," ","m","u","s","t"," ","r","u","n"," ","t","o","g","e","t","h","e","r">>, {"run together", "must run"},
             <<<<"T","1">>, <<"T","2","2">>>>, <<>>, <<>>, <<>>, <<>>),
    Fragment(<<"m","u","s","t"," ","r","u","n"," ","T","7">>, {"must run"}, <<<<"T","7">>>>, <<>>, <<>>, <<>>, <<>>),
    Fragment(<<"l","i","m","i","t"," ","s","a","l","e","s"," ","w","o","r","k","e","r","s"," ","t","o"," ","4"," ","s","l","o","t","s">>, {"limit", "slots"},
             <<>>, <<<<"s","a","l","e","s">>>>, <<4>>, <<>>, <<>>),
    Fragment(<<"l","i","m","i","t"," ","3"," ","s","l","o","t","s">>, {"limit", "slots"}, <<>>, <<>>, <<3>>, <<>>, <<>>),
    Fragment(<<"T","3"," ","c","a","n"," ","o","n","l","y"," ","r","u","n"," ","i","n"," ","p","h","a","s","e","s"," ","1","-","4">>, {"only run", "phase"},
             <<<<"T","3">>>>, <<>>, <<>>, <<<<1, 4>>>>, <<>>),
    Fragment(<<"o","n","l","y"," ","r","u","n"," ","i","n"," ","p","h","a","s","e"," ","2">>, {"only run", "phase"}, <<>>, <<>>, <<>>, <<>>, <<>>),
    Fragment(<<"L","i","m","i","t"," ","l","o","a","d"," ","o","f"," ","o","p","s"," ","w","o","r","k","e","r","s"," ","t","o"," ","2"," ","p","e","r"," ","p","h","a","s","e">>, {"limit", "load", "phase"},
             <<>>, <<<<"o","p","s">>>>, <<>>, <<>>, <<2>>),
    Fragment(<<"l","o","a","d"," ","l","i","m","i","t">>, {"load", "limit"}, <<>>, <<>>, <<>>, <<>>, <<>>),
    Fragment(<<"N","i","g","h","t"," ","w","o","r","k","e","r","s">>, {}, <<>>, <<<<"n","i","g","h","t">>>>, <<>>, <<>>, <<>>),
    Fragment(<<"p","h","a","s","e"," ","2","-","3">>, {"phase"}, <<>>, <<>>, <<>>, <<<<2, 3>>>>, <<>>),
    Fragment(<<"5"," ","p","e","r"," ","p","h","a","s","e">>, {"phase"}, <<>>, <<>>, <<>>, <<>>, <<5>>),
    Fragment(<<"T","9">>, {}, <<<<"T","9">>>>, <<>>, <<>>, <<>>, <<>>) >>

FragmentLists == SeqsOf(1..Len(Fragments), 1, MaxFragments)
sentenceOf(fs) == join([k \in 1..Len(fs) |-> Fragments[fs[k]].text], <<" ">>)

InitParse == \E fs \in FragmentLists : InitWith(<<>>, <<>>, <<>>, sentenceOf(fs))
SpecParse == InitParse /\ [][ParseSentence]_vars

\* what the fragments of a sentence hold together
wordsOf(fs) == UNION {Fragments[fs[k]].words : k \in 1..Len(fs)}
taskIdsOf(fs) == Concat([k \in 1..Len(fs) |-> Fragments[fs[k]].taskIds])
groupsOf(fs) == Concat([k \in 1..Len(fs) |-> Fragments[fs[k]].groups])
slotsOf(fs) == Concat([k \in 1..Len(fs) |-> Fragments[fs[k]].slots])
phasesOf(fs) == Concat([k \in 1..Len(fs) |-> Fragments[fs[k]].phases])
loadsOf(fs) == Concat([k \in 1..Len(fs) |-> Fragments[fs[k]].loads])

\* an intent has its trigger phrase and all its required tokens
Complete(intent, fs) ==
    CASE intent = "coRun" ->
            /\ wordsOf(fs) \cap {"run together", "must run"} # {}
            /\ Len(taskIdsOf(fs)) >= 2
      [] intent = "slotRestriction" ->
            /\ {"limit", "slots"} \subseteq wordsOf(fs)
            /\ groupsOf(fs) # <<>> /\ slotsOf(fs) # <<>>
      [] intent = "phaseWindow" ->
            /\ {"only run", "phase"} \subseteq wordsOf(fs)
            /\ taskIdsOf(fs) # <<>> /\ phasesOf(fs) # <<>>
      [] intent = "loadLimit" ->
            /\ {"load", "limit"} \subseteq wordsOf(fs)
            /\ groupsOf(fs) # <<>> /\ loadsOf(fs) # <<>>

intentOrder == <<"coRun", "slotRestriction", "phaseWindow", "loadLimit">>

\* a rule with every token its type requires
WellFormed(rule) ==
    /\ rule.enabled
    /\ rule.description = naturalLanguageRule
    /\ CASE rule.type = "coRun" ->
               /\ DOMAIN rule.parameters = {"tasks"}
               /\ Len(rule.parameters.tasks) >= 2
               /\ \A k \in 1..Len(rule.parameters.tasks) :
                     LET id == rule.parameters.tasks[k]
                     IN  Len(id) >= 2 /\ id[1] = "T" /\ \A j \in 2..Len(id) : IsDigit(id[j])
         [] rule.type = "slotRestriction" ->
               /\ DOMAIN rule.parameters = {"group", "maxSlots"}
               /\ rule.parameters.group # <<>>
               /\ rule.parameters.maxSlots.t = "number"
         [] rule.type = "phaseWindow" ->
               /\ DOMAIN rule.parameters = {"taskId", "phases"}
               /\ Len(rule.parameters.taskId) >= 2
               /\ Len(rule.parameters.phases) = 2
               /\ \A k \in 1..2 : rule.parameters.phases[k].t = "number"
         [] rule.type = "loadLimit" ->
               /\ DOMAIN rule.parameters = {"group", "maxLoad"}
               /\ rule.parameters.group # <<>>
               /\ rule.parameters.maxLoad.t = "number"
         [] OTHER -> FALSE

Parsed == lastCall = "parseRuleFromText"
fragmentsOfSentence == {fs \in FragmentLists : sentenceOf(fs) = naturalLanguageRule}

\* C9: parseRuleFromText returns null or a BusinessRule of type coRun,
\* slotRestriction, phaseWindow or loadLimit with every token the type
\* requires, and null whenever no intent has its trigger phrase and all its
\* tokens.
C9_NullOrWellFormedRule ==
    Parsed =>
        /\ parsedRule = Null \/ WellFormed(parsedRule)
        /\ \A fs \in fragmentsOfSentence :
              (\A k \in 1..4 : ~Complete(intentOrder[k], fs)) => parsedRule = Null

\* a sentence with the co-run trigger phrase and one task id, no other intent
\* complete, parsed to null
C9_Witness ==
    /\ Parsed /\ parsedRule = Null
    /\ \E fs \in fragmentsOfSentence :
          /\ "must run" \in wordsOf(fs) /\ Len(taskIdsOf(fs)) = 1
          /\ "phase" \in wordsOf(fs)

\* the rule of an intent for the tokens the fragments hold
expectedParameters(intent, fs) ==
    CASE intent = "coRun" -> [tasks |-> taskIdsOf(fs)]
      [] intent = "slotRestriction" -> [group |-> groupsOf(fs)[1], maxSlots |-> Num(slotsOf(fs)[1])]
      [] intent = "phaseWindow" ->
            [taskId |-> taskIdsOf(fs)[1],
             phases |-> <<Num(phasesOf(fs)[1][1]), Num(phasesOf(fs)[1][2])>>]
      [] intent = "loadLimit" -> [group |-> groupsOf(fs)[1], maxLoad |-> Num(loadsOf(fs)[1])]

\* C10: the intents are checked in the order co-run, slot restriction, phase
\* window, load limit, and the first one with its trigger phrase and all its
\* tokens determines the rule; an earlier intent with its trigger but not its
\* tokens does not stand in the way.
C10_FirstCompleteIntentWins ==
    Parsed =>
        \A fs \in fragmentsOfSentence : \A k \in 1..4 :
            Complete(intentOrder[k], fs) /\ (\A j \in 1..(k - 1) : ~Complete(intentOrder[j], fs))
               => /\ parsedRule # Null
                  /\ parsedRule.type = intentOrder[k]
                  /\ parsedRule.parameters = expectedParameters(intentOrder[k], fs)

\* a sentence complete for two intents, and one whose co-run trigger lacks a
\* second task id while a later intent is complete
C10_Witness ==
    /\ Parsed /\ parsedRule # Null /\ parsedRule.type = "slotRestriction"
    /\ \E fs \in fragmentsOfSentence :
          /\ Complete("slotRestriction", fs) /\ Complete("loadLimit", fs)

\* ---------------------------------------------------------------- co-run sentences

MaxWords == 3

\* The words of the sentences: a word is a trigger phrase of the co-run intent,
\* a task-id-shaped token (one letter followed by digits; id is the token in
\* upper case) or neither.
Word(text, trigger, id) == [text |-> text, trigger |-> trigger, id |-> id]
Words == <<
    Word(<<"A","1">>, FALSE, <<<<"A","1">>>>),
    Word(<<"b","2","2">>, FALSE, <<<<"B","2","2">>>>),
    Word(<<"T","7">>, FALSE, <<<<"T","7">>>>),
    Word(<<"t","3">>, FALSE, <<<<"T","3">>>>),
    Word(<<"m","u","s","t"," ","r","u","n">>, TRUE, <<>>),
    Word(<<"r","u","n"," ","t","o","g","e","t","h","e","r">>, TRUE, <<>>),
    Word(<<"a","n","d">>, FALSE, <<>>) >>

WordLists == SeqsOf(1..Len(Words), 1, MaxWords)
wordSentence(ws) == join([k \in 1..Len(ws) |-> Words[ws[k]].text], <<" ">>)

InitCoRunSentence == \E ws \in WordLists : InitWith(<<>>, <<>>, <<>>, wordSentence(ws))
SpecCoRunSentence == InitCoRunSentence /\ [][ParseSentence]_vars

wordsOfSentence == {ws \in WordLists : wordSentence(ws) = naturalLanguageRule}
tokensOf(ws) == Concat([k \in 1..Len(ws) |-> Words[ws[k]].id])
HasTrigger(ws) == \E k \in 1..Len(ws) : Words[ws[k]].trigger

\* C11: for a sentence with a co-run trigger phrase and at least two
\* task-id-shaped tokens (any single letter followed by digits),
\* parseRuleFromText returns a coRun rule whose parameters.tasks lists exactly
\* all those tokens, in upper case.
C11_CoRunListsAllTokens ==
    Parsed =>
        \A ws \in wordsOfSentence :
            HasTrigger(ws) /\ Len(tokensOf(ws)) >= 2 =>
                /\ parsedRule # Null
                /\ parsedRule.type = "coRun"
                /\ parsedRule.parameters.tasks = tokensOf(ws)

\* ---------------------------------------------------------------- engine calls

MaxEngineRows == 2

EngineClients == {clientRow(Str(<<"C","1">>), f[1], f[2], f[3]) :
                     f \in {<<Num(7), Str(<<"T","1",",","T","2">>), Str(<<"{","}">>)>>,
                            <<Num(3), Str(<<"T","2",","," ","T","1",",","T","9">>), Str(<<"n","o","t","-","j","s","o","n">>)>>,
                            <<Str(<<"0">>), Str(<<>>), Str(<<>>)>>}}
EngineWorkers == {workerRow(Str(<<"W","1">>), Str(<<"s","q","l">>), Str(<<"[","1","]">>), Num(4), Str(<<"o","p","s">>))}
EngineTasks == {taskRow(Str(<<"T","1">>), Num(0), Str(<<"s","q","l",",","g","o">>), Num(1))}
EngineSentences == {<<"T","1"," ","a","n","d"," ","T","2"," ","m","u","s","t"," ","r","u","n"," ","t","o","g","e","t","h","e","r">>, <<"l","i","m","i","t"," ","l","o","a","d">>}

InitEngine ==
    \E c \in SeqsOf(EngineClients, 1, MaxEngineRows), w \in SeqsOf(EngineWorkers, 0, 1),
       t \in SeqsOf(EngineTasks, 0, 1), sentence \in EngineSentences :
          InitWith(c, w, t, sentence)
NextEngine == \/ Validate
              \/ handleGenerateSuggestions
              \/ generateRuleSuggestions
              \/ ParseSentence
              \/ ApplySuggestion
SpecEngine == InitEngine /\ [][NextEngine]_vars

engineCalls == {"validateData", "generateCorrections", "generateRuleRecommendations",
                "parseRuleFromText"}

\* C12: a call of validateData, generateCorrections, generateRuleRecommendations
\* or parseRuleFromText leaves the clients, workers and tasks it is given and
\* the store's business rules unchanged; what it finds is only returned.
C12_EngineLeavesStoreUnchanged ==
    [][lastCall' \in engineCalls => UNCHANGED <<clients, workers, tasks, businessRules>>]_vars

\* corrections and a rule were returned while the defective rows are as imported
C12_Witness ==
    /\ lastCall = "parseRuleFromText" /\ parsedRule # Null
    /\ Len(corrections) >= 2 /\ suggestions = corrections
    /\ Len(validationResults) > 0 /\ Len(ruleSuggestions) > 0
    /\ \E i \in 1..Len(clients) : clients[i].PriorityLevel = Num(7)

\* ---------------------------------------------------------------- ranges

\* The values of a numeric field: in-range integers, as numbers and as text,
\* and values that are out of bounds or not entirely numeric.
InRangePriorities == {Num(3), Str(<<"3">>), Num(1), Str(<<"5">>)}
OtherPriorities == {Num(0), Num(7), Num(-1), Str(<<"0">>), Str(<<"4","x">>), Str(<<"a","b","c">>)}
AtLeastOne == {Num(3), Str(<<"9">>), Num(1)}
NotAtLeastOne == {Num(0), Num(-1), Str(<<"0">>), Str(<<"4","x">>), Str(<<"a","b","c">>)}

InitRange ==
    \E priority \in InRangePriorities \cup OtherPriorities,
       duration \in AtLeastOne \cup NotAtLeastOne,
       load \in AtLeastOne \cup NotAtLeastOne :
          InitWith(<<clientRow(Str(<<"C","1">>), priority, Str(<<>>), Str(<<"{","}">>))>>,
                   <<workerRow(Str(<<"W","1">>), Str(<<"s","q","l">>), Str(<<"[","1",",","2",",","3","]">>), load, Str(<<>>))>>,
                   <<taskRow(Str(<<"T","1">>), duration, Str(<<>>), Num(1))>>, <<>>)
SpecRange == InitRange /\ [][Validate]_vars

\* a fixable out_of_range error for the field of the row with the id
RangeError(id, field) ==
    \E k \in 1..Len(validationResults) :
        /\ validationResults[k].type = "out_of_range"
        /\ validationResults[k].severity = "error"
        /\ validationResults[k].fixable
        /\ validationResults[k].entityId = id
        /\ validationResults[k].field = field

\* C13: outOfRangeValues returns a fixable out_of_range error whenever the
\* field holds a value that is non-numeric or out of bounds (PriorityLevel not
\* an integer in 1..5, Duration < 1, MaxLoadPerPhase < 1), the value 0 and
\* values that are not entirely numeric included, and none for an in-range
\* integer.
C13_RangeErrorIffOutOfRange ==
    Validated =>
        /\ RangeError(Str(<<"C","1">>), "PriorityLevel") <=> clients[1].PriorityLevel \in OtherPriorities
        /\ RangeError(Str(<<"T","1">>), "Duration") <=> tasks[1].Duration \in NotAtLeastOne
        /\ RangeError(Str(<<"W","1">>), "MaxLoadPerPhase") <=> workers[1].MaxLoadPerPhase \in NotAtLeastOne

\* ---------------------------------------------------------------- file parser

\* Expected headers for each entity type
EXPECTED_HEADERS ==
    [clients |-> <<"ClientID", "ClientName", "PriorityLevel", "RequestedTaskIDs",
                   "GroupTag", "AttributesJSON">>,
     workers |-> <<"WorkerID", "WorkerName", "Skills", "AvailableSlots",
                   "MaxLoadPerPhase", "WorkerGroup", "QualificationLevel">>,
     tasks |-> <<"TaskID", "TaskName", "Category", "Duration", "RequiredSkills",
                 "PreferredPhases", "MaxConcurrent">>]

\* header.toLowerCase().replace(/[^a-z0-9]/g, '')
normalizeHeader(header) ==
    SelectSeq(toLowerCase(header),
              LAMBDA c : IsDigit(c) \/ \E i \in 1..26 : LowerCase[i] = c)

\* Common variations
variations ==
    [ClientID |-> {<<"c","l","i","e","n","t","i","d">>, <<"c","l","i","e","n","t","_","i","d">>, <<"i","d">>, <<"c","l","i","e","n","t">>},
     ClientName |-> {<<"c","l","i","e","n","t","n","a","m","e">>, <<"c","l","i","e","n","t","_","n","a","m","e">>, <<"n","a","m","e">>},
     PriorityLevel |-> {<<"p","r","i","o","r","i","t","y","l","e","v","e","l">>, <<"p","r","i","o","r","i","t","y","_","l","e","v","e","l">>, <<"p","r","i","o","r","i","t","y">>, <<"l","e","v","e","l">>},
     RequestedTaskIDs |-> {<<"r","e","q","u","e","s","t","e","d","t","a","s","k","i","d","s">>, <<"r","e","q","u","e","s","t","e","d","_","t","a","s","k","_","i","d","s">>, <<"t","a","s","k","s">>, <<"t","a","s","k","i","d","s">>},
     GroupTag |-> {<<"g","r","o","u","p","t","a","g">>, <<"g","r","o","u","p","_","t","a","g">>, <<"g","r","o","u","p">>, <<"t","a","g">>},
     AttributesJSON |-> {<<"a","t","t","r","i","b","u","t","e","s","j","s","o","n">>, <<"a","t","t","r","i","b","u","t","e","s","_","j","s","o","n">>, <<"a","t","t","r","i","b","u","t","e","s">>, <<"j","s","o","n">>},
     WorkerID |-> {<<"w","o","r","k","e","r","i","d">>, <<"w","o","r","k","e","r","_","i","d">>, <<"i","d">>, <<"w","o","r","k","e","r">>},
     WorkerName |-> {<<"w","o","r","k","e","r","n","a","m","e">>, <<"w","o","r","k","e","r","_","n","a","m","e">>, <<"n","a","m","e">>},
     Skills |-> {<<"s","k","i","l","l","s">>, <<"s","k","i","l","l">>, <<"c","a","p","a","b","i","l","i","t","i","e","s">>},
     AvailableSlots |-> {<<"a","v","a","i","l","a","b","l","e","s","l","o","t","s">>, <<"a","v","a","i","l","a","b","l","e","_","s","l","o","t","s">>, <<"s","l","o","t","s">>, <<"a","v","a","i","l","a","b","i","l","i","t","y">>},
     MaxLoadPerPhase |-> {<<"m","a","x","l","o","a","d","p","e","r","p","h","a","s","e">>, <<"m","a","x","_","l","o","a","d","_","p","e","r","_","p","h","a","s","e">>, <<"m","a","x","l","o","a","d">>, <<"l","o","a","d">>},
     WorkerGroup |-> {<<"w","o","r","k","e","r","g","r","o","u","p">>, <<"w","o","r","k","e","r","_","g","r","o","u","p">>, <<"g","r","o","u","p">>},
     QualificationLevel |-> {<<"q","u","a","l","i","f","i","c","a","t","i","o","n","l","e","v","e","l">>, <<"q","u","a","l","i","f","i","c","a","t","i","o","n","_","l","e","v","e","l">>,
                             <<"q","u","a","l","i","f","i","c","a","t","i","o","n">>, <<"l","e","v","e","l">>},
     TaskID |-> {<<"t","a","s","k","i","d">>, <<"t","a","s","k","_","i","d">>, <<"i","d">>, <<"t","a","s","k">>},
     TaskName |-> {<<"t","a","s","k","n","a","m","e">>, <<"t","a","s","k","_","n","a","m","e">>, <<"n","a","m","e">>},
     Category |-> {<<"c","a","t","e","g","o","r","y">>, <<"c","a","t">>, <<"t","y","p","e">>},
     Duration |-> {<<"d","u","r","a","t","i","o","n">>, <<"t","i","m","e">>, <<"l","e","n","g","t","h">>},
     RequiredSkills |-> {<<"r","e","q","u","i","r","e","d","s","k","i","l","l","s">>, <<"r","e","q","u","i","r","e","d","_","s","k","i","l","l","s">>, <<"s","k","i","l","l","s">>, <<"r","e","q","u","i","r","e","m","e","n","t","s">>},
     PreferredPhases |-> {<<"p","r","e","f","e","r","r","e","d","p","h","a","s","e","s">>, <<"p","r","e","f","e","r","r","e","d","_","p","h","a","s","e","s">>, <<"p","h","a","s","e","s">>, <<"p","r","e","f","e","r","e","n","c","e">>},
     MaxConcurrent |-> {<<"m","a","x","c","o","n","c","u","r","r","e","n","t">>, <<"m","a","x","_","c","o","n","c","u","r","r","e","n","t">>, <<"c","o","n","c","u","r","r","e","n","t">>, <<"p","a","r","a","l","l","e","l">>}]

\* a score is a fraction n/d; 1.0 is 1/1, 0.9 is 9/10
Score(n, d) == [n |-> n, d |-> d]
ScoreGreater(x, y) == x.n * y.d > y.n * x.d

\* the best match of a header after the expected headers from the k-th on,
\* given the best match so far: the body of expectedHeaders.forEach
RECURSIVE bestMatchFrom(_, _, _, _)
bestMatchFrom(normalizedHeader, expectedHeaders, k, best) ==
    IF k > Len(expectedHeaders) THEN best
    ELSE LET expected == expectedHeaders[k]
             normalizedExpected == normalizeHeader(chars[expected])
             shorter == IF Len(normalizedHeader) < Len(normalizedExpected)
                        THEN Len(normalizedHeader) ELSE Len(normalizedExpected)
             longer == IF Len(normalizedHeader) < Len(normalizedExpected)
                       THEN Len(normalizedExpected) ELSE Len(normalizedHeader)
             score == Score(shorter, longer)
             partial == IF /\ \/ includes(normalizedHeader, normalizedExpected)
                              \/ includes(normalizedExpected, normalizedHeader)
                           /\ ScoreGreater(score, best.score)
                        THEN [match |-> expected, score |-> score]
                        ELSE best
             varied == IF normalizedHeader \in variations[expected]
                       THEN [match |-> expected, score |-> Score(9, 10)]
                       ELSE partial
         IN  IF normalizedHeader = normalizedExpected
             THEN bestMatchFrom(normalizedHeader, expectedHeaders, k + 1,
                                [match |-> expected, score |-> Score(1, 1)])
             ELSE bestMatchFrom(normalizedHeader, expectedHeaders, k + 1, varied)

\* AI-powered header mapping function
mapHeaders(headers, entityType) ==
    LET best(header) == bestMatchFrom(normalizeHeader(header), EXPECTED_HEADERS[entityType], 1,
                                      [match |-> "", score |-> Score(0, 1)])
        Mapped(header) == best(header).match # "" /\ ScoreGreater(best(header).score, Score(3, 10))
        kept == SelectSeq(headers, Mapped)
    IN  [k \in 1..Len(kept) |->
            [originalHeader |-> kept[k], mappedHeader |-> best(kept[k]).match,
             confidence |-> best(kept[k]).score]]

\* headers.join(' ').toLowerCase(), then the includes tests in their order
detectEntityType(headers) ==
    LET headerString == toLowerCase(join(headers, <<" ">>))
    IN  IF includes(headerString, <<"c","l","i","e","n","t">>) \/ includes(headerString, <<"p","r","i","o","r","i","t","y">>)
        THEN "clients"
        ELSE IF includes(headerString, <<"w","o","r","k","e","r">>) \/ includes(headerString, <<"s","k","i","l","l">>)
        THEN "workers"
        ELSE IF includes(headerString, <<"t","a","s","k">>) \/ includes(headerString, <<"d","u","r","a","t","i","o","n">>)
        THEN "tasks"
        ELSE "unknown"

\* A parsed row is an object: its keys in insertion order with their values.
keysOf(row) == [k \in 1..Len(row) |-> row[k].key]
valueOf(row, key) ==
    IF \E k \in 1..Len(row) : row[k].key = key
    THEN row[CHOOSE k \in 1..Len(row) : row[k].key = key].value
    ELSE Undefined

\* the rows with the mapped headers of a confidence above 0.5 under their
\* canonical names, the expected headers that are still missing filled with ''
transformData(data, entityType) ==
    LET Confident(m) == ScoreGreater(m.confidence, Score(1, 2))
        expectedHeaders == EXPECTED_HEADERS[entityType]
        transformed(row, used) ==
            [header \in {expectedHeaders[k] : k \in 1..Len(expectedHeaders)} |->
                LET from == {k \in 1..Len(used) : used[k].mappedHeader = header}
                IN  IF from = {} THEN Str(<<>>)
                    ELSE valueOf(row, used[CHOOSE k \in from : \A j \in from : j <= k].originalHeader)]
    IN  IF data = <<>> THEN <<>>
        ELSE CHOOSE rows \in
                 {[i \in 1..Len(data) |-> transformed(data[i], used)] :
                      used \in {SelectSeq(mapHeaders(keysOf(data[1]), entityType), Confident)}} : TRUE

\* FileUpload.onDrop with one accepted file, given as parseCSVFile parsed it:
\* an empty file and a file of unknown entity type end in the file's error
\* status and no validation; otherwise the rows are stored and the store is
\* validated.
onDrop(parsedData) ==
    \E entityType \in {detectEntityType(parsedData.headers)} :
        IF parsedData.data = <<>> \/ entityType = "unknown"
        THEN /\ lastCall' = "onDrop failed"
             /\ UNCHANGED <<clients, workers, tasks, validationFailed, validationResults, page>>
             /\ UNCHANGED <<businessRules, corrections, suggestions, ruleSuggestions,
                            naturalLanguageRule, parsedRule, clock>>
        ELSE \E transformedData \in {transformData(parsedData.data, entityType)} :
             /\ clients' = IF entityType = "clients" THEN transformedData ELSE clients
             /\ workers' = IF entityType = "workers" THEN transformedData ELSE workers
             /\ tasks' = IF entityType = "tasks" THEN transformedData ELSE tasks
             /\ \E context \in {ValidationContext(clients', workers', tasks')} :
                    IF validateDataThrows(context)
                    THEN validationFailed' = TRUE /\ UNCHANGED <<validationResults, page>>
                    ELSE /\ validationFailed' = FALSE /\ validationResults' = validateData(context)
                         /\ page' = handleValidationComplete(validationResults')
             /\ lastCall' = "onDrop"
             /\ UNCHANGED <<businessRules, corrections, suggestions, ruleSuggestions,
                            naturalLanguageRule, parsedRule, clock>>

\* ---------------------------------------------------------------- imported files

MaxFileRows == 2

\* A file as parsed: its headers and its rows, every row with a value for
\* every header.  It is listed with its entity kind, the required columns no
\* header of it maps to, and the id of its rows, which no other file uses.
File(headers, values, kind, unmapped, marker) ==
    [headers |-> headers, values |-> values, kind |-> kind, unmapped |-> unmapped,
     marker |-> marker]
Files == {
    File(<<<<"C","l","i","e","n","t","I","D">>, <<"P","r","i","o","r","i","t","y","L","e","v","e","l">>>>, <<Str(<<"C","a">>), Str(<<"3">>)>>, "clients",
         {"ClientName", "RequestedTaskIDs", "GroupTag", "AttributesJSON"}, Str(<<"C","a">>)),
    File(<<<<"C","l","i","e","n","t","I","D">>, <<"C","l","i","e","n","t","N","a","m","e">>, <<"P","r","i","o","r","i","t","y","L","e","v","e","l">>, <<"R","e","q","u","e","s","t","e","d","T","a","s","k","I","D","s">>,
           <<"G","r","o","u","p","T","a","g">>, <<"A","t","t","r","i","b","u","t","e","s","J","S","O","N">>>>,
         <<Str(<<"C","b">>), Str(<<"A","c","m","e">>), Str(<<"9">>), Str(<<"T","a">>), Str(<<"g","o","l","d">>), Str(<<"{","}">>)>>,
         "clients", {}, Str(<<"C","b">>)),
    File(<<<<"C","l","i","e","n","t"," ","I","d">>, <<"n","a","m","e">>, <<"p","r","i","o","r","i","t","y">>, <<"n","o","t","e","s">>>>,
         <<Str(<<"C","c">>), Str(<<"B","o","l","t">>), Str(<<"2">>), Str(<<"n","o","n","e">>)>>, "clients",
         {"RequestedTaskIDs", "GroupTag", "AttributesJSON"}, Str(<<"C","c">>)),
    File(<<<<"T","a","s","k","I","D">>, <<"D","u","r","a","t","i","o","n">>>>, <<Str(<<"T","a">>), Str(<<"2">>)>>, "tasks",
         {"TaskName", "Category", "RequiredSkills", "PreferredPhases", "MaxConcurrent"},
         Str(<<"T","a">>)),
    File(<<<<"W","o","r","k","e","r","I","D">>, <<"S","k","i","l","l","s">>, <<"A","v","a","i","l","a","b","l","e","S","l","o","t","s">>, <<"M","a","x","L","o","a","d","P","e","r","P","h","a","s","e">>>>,
         <<Str(<<"W","a">>), Str(<<"s","q","l">>), Str(<<"[","1","]">>), Str(<<"1">>)>>, "workers",
         {"WorkerName", "WorkerGroup", "QualificationLevel"}, Str(<<"W","a">>)),
    File(<<<<"f","o","o">>, <<"b","a","r">>>>, <<Str(<<"x">>), Str(<<"y">>)>>, "unknown", {}, Str(<<"x">>)) }

\* the file with n rows, as parseCSVFile returns it
parsedFile(file, n) ==
    [headers |-> file.headers,
     data |-> [i \in 1..n |-> [k \in 1..Len(file.headers) |->
                                 [key |-> file.headers[k], value |-> file.values[k]]]]]

UploadFile == \E file \in Files, n \in 0..MaxFileRows : onDrop(parsedFile(file, n))
InitUpload == InitWith(<<>>, <<>>, <<>>, <<>>)
SpecUpload == InitUpload /\ [][UploadFile]_vars

rowsOfKind(kind) == CASE kind = "clients" -> clients
                      [] kind = "workers" -> workers
                      [] kind = "tasks" -> tasks
                      [] OTHER -> <<>>
\* the rows of the file are the stored rows of its kind
FileInStore(file) ==
    /\ rowsOfKind(file.kind) # <<>>
    /\ rowsOfKind(file.kind)[1][idFieldOf(file.kind)] = file.marker
missingColumnResults(kind, column) ==
    SelectSeq(validationResults,
              LAMBDA r : r.type = "missing_required_column" /\ r.entity = kind /\ r.field = column)

\* C14: after a file is imported in which no header maps to some required
\* column of its kind, the validation of that batch has exactly one
\* missing_required_column error, not fixable, for that column; and for a
\* collection in which every required column is defined by some row there is
\* none.
C14_MissingColumnReported ==
    lastCall = "onDrop" /\ ~validationFailed =>
        /\ \A file \in Files : FileInStore(file) =>
              \A column \in file.unmapped :
                  /\ Len(missingColumnResults(file.kind, column)) = 1
                  /\ ~missingColumnResults(file.kind, column)[1].fixable
        /\ \A kind \in {"clients", "workers", "tasks"} :
              (\A k \in 1..Len(requiredColumns[kind]) :
                  \E i \in 1..Len(rowsOfKind(kind)) :
                      rowsOfKind(kind)[i][requiredColumns[kind][k]] # Undefined)
              => \A k \in 1..Len(requiredColumns[kind]) :
                    missingColumnResults(kind, requiredColumns[kind][k]) = <<>>

\* ---------------------------------------------------------------- corrections and diagnostics

\* the fixable results validateData returns on the store's snapshot
fixableResults == SelectSeq(validateData(store), LAMBDA r : r.fixable)

\* C15: every suggestion generateCorrections returns targets an (entity id,
\* field) pair for which validateData returns a fixable result on the same
\* snapshot.
C15_CorrectionsTargetFixableResults ==
    lastCall = "generateCorrections" /\ ~validateDataThrows(store) =>
        \A k \in 1..Len(corrections) :
            \E j \in 1..Len(fixableResults) :
                /\ fixableResults[j].entityId = targetId(corrections[k])
                /\ fixableResults[j].field = targetField(corrections[k])

\* the suggestions of an action among the corrections
suggestionsOf(action) == SelectSeq(corrections, LAMBDA s : s.action = action)
IsInteger(v) == v.t = "number"
\* among rows, every non-positive integer in the field has a suggestion of the
\* action with suggestedValue 1 for the row's id, and every suggestion of the
\* action is for the id of a row whose field is not a positive integer
FixesNonPositive(rows, idField, field, action) ==
    /\ \A i \in 1..Len(rows) :
          IsInteger(rows[i][field]) /\ rows[i][field].n <= 0 =>
              \E k \in 1..Len(suggestionsOf(action)) :
                  /\ targetId(suggestionsOf(action)[k]) = rows[i][idField]
                  /\ suggestionsOf(action)[k].data.suggestedValue = Num(1)
    /\ \A k \in 1..Len(suggestionsOf(action)) :
          \E i \in 1..Len(rows) :
              /\ rows[i][idField] = targetId(suggestionsOf(action)[k])
              /\ ~(IsInteger(rows[i][field]) /\ rows[i][field].n > 0)

\* C16: for every worker whose MaxLoadPerPhase and every task whose Duration or
\* MaxConcurrent is negative or exactly 0, generateCorrections returns a
\* suggestion (fix_load, fix_duration, fix_concurrent) with suggestedValue 1,
\* and for positive values it returns none.
C16_NonPositiveReplacedByOne ==
    lastCall = "generateCorrections" =>
        /\ FixesNonPositive(workers, "WorkerID", "MaxLoadPerPhase", "fix_load")
        /\ FixesNonPositive(tasks, "TaskID", "Duration", "fix_duration")
        /\ FixesNonPositive(tasks, "TaskID", "MaxConcurrent", "fix_concurrent")

\* ---------------------------------------------------------------- overloaded groups

MaxLoadRows == 2

\* AvailableSlots texts with the length of the array each decodes to (0 for a
\* text that does not decode), and MaxLoadPerPhase values with their number
SlotTexts == {[text |-> Str(<<"[","1","]">>), length |-> 1],
              [text |-> Str(<<"[","1",",","2",",","3","]">>), length |-> 3],
              [text |-> Str(<<"b","a","d">>), length |-> 0]}
LoadValues == {[value |-> Num(1), number |-> 1], [value |-> Num(3), number |-> 3],
               [value |-> Str(<<"4">>), number |-> 4]}
LoadGroups == {Str(<<>>), Str(<<"o","p","s">>), Str(<<"d","e","v">>)}
LoadWorkers == {workerRow(Str(<<"W","1">>), Str(<<"s","q","l">>), s.text, l.value, g) :
                   s \in SlotTexts, l \in LoadValues, g \in LoadGroups}
InitLoads == \E w \in SeqsOf(LoadWorkers, 1, MaxLoadRows) : InitWith(<<>>, w, <<>>, <<>>)
SpecLoads == InitLoads /\ [][generateRuleSuggestions]_vars

slotLength(worker) == (CHOOSE s \in SlotTexts : s.text = worker.AvailableSlots).length
loadNumber(worker) == (CHOOSE l \in LoadValues : l.value = worker.MaxLoadPerPhase).number
RECURSIVE sumOver(_, _, _)
\* the sum of the slot lengths ("slots") or of the loads of the first n workers in the group
sumOver(what, group, n) ==
    IF n = 0 THEN 0
    ELSE sumOver(what, group, n - 1)
         + (IF workers[n].WorkerGroup # group THEN 0
            ELSE IF what = "slots" THEN slotLength(workers[n]) ELSE loadNumber(workers[n]))
slotTotal(group) == sumOver("slots", group, Len(workers))
loadTotal(group) == sumOver("loads", group, Len(workers))
loadLimitSuggestions == SelectSeq(ruleSuggestions, LAMBDA s : s.action = "add_load_limit_rule")
Recommended == lastCall = "generateRuleRecommendations"

\* C17: generateRuleRecommendations flags a WorkerGroup if and only if the sum
\* of MaxLoadPerPhase over its workers is greater than twice the sum of the
\* lengths of their decoded AvailableSlots; the suggestion has confidence 0.8
\* and suggestedLimit floor(1.5 x the group's slot total); the empty
\* WorkerGroup is no group.
C17_OverloadedGroupsFlagged ==
    Recommended =>
        /\ \A group \in LoadGroups \ {Str(<<>>)} :
              (\E k \in 1..Len(loadLimitSuggestions) : loadLimitSuggestions[k].data.group = group)
              <=> loadTotal(group) > 2 * slotTotal(group)
        /\ \A k \in 1..Len(loadLimitSuggestions) :
              /\ loadLimitSuggestions[k].data.group # Str(<<>>)
              /\ loadLimitSuggestions[k].confidence = 8
              /\ 2 * loadLimitSuggestions[k].data.suggestedLimit
                    \in {3 * slotTotal(loadLimitSuggestions[k].data.group),
                         3 * slotTotal(loadLimitSuggestions[k].data.group) - 1}

\* ---------------------------------------------------------------- order of the results

MaxOrderRows == 2

\* rows with ids in document order, each with or without a malformed list, an
\* out-of-range value and a broken JSON text
OrderIds == <<<<"1">>, <<"2">>, <<"3">>>>
OrderClientFields == {<<priority, requested, attributes>> :
                         priority \in {Num(3), Num(9)},
                         requested \in {Str(<<>>), Str(<<"T","1",",">>)},
                         attributes \in {Str(<<"{","}">>), Str(<<"{","a">>)}}
OrderWorkerFields == {<<slots, load>> : slots \in {Str(<<"[","1","]">>), Str(<<"b","a","d">>)},
                                        load \in {Num(1), Num(-1)}}
InitOrder ==
    \/ \E f \in SeqsOf(OrderClientFields, 1, MaxOrderRows) :
          InitWith([i \in 1..Len(f) |->
                       clientRow(Str(<<"C">> \o OrderIds[i]), f[i][1], f[i][2], f[i][3])],
                   <<>>, <<>>, <<>>)
    \/ \E f \in SeqsOf(OrderWorkerFields, 1, MaxOrderRows) :
          InitWith(<<>>,
                   [i \in 1..Len(f) |->
                       workerRow(Str(<<"W">> \o OrderIds[i]), Str(<<"s","q","l">>), f[i][1], f[i][2],
                                 Str(<<>>))],
                   <<>>, <<>>)
SpecOrder == InitOrder /\ [][Validate]_vars

checkOrder == [malformed_list |-> 1, out_of_range |-> 2, broken_json |-> 3]
fieldResults == SelectSeq(validationResults, LAMBDA r : r.type \in DOMAIN checkOrder)
\* the position of the row a result is about: the ids of the rows are distinct
rowOf(r) == CHOOSE i \in 1..MaxOrderRows + 1 :
               \/ i <= Len(clients) /\ clients[i].ClientID = r.entityId
               \/ i <= Len(workers) /\ workers[i].WorkerID = r.entityId

\* C18: the results of the field validators in validateData's result are in
\* document order first and check order second: within one collection every
\* result of an earlier row precedes every result of a later row, and the
\* results of one row are in the order malformed lists, out-of-range values,
\* broken JSON.
C18_DocumentOrderThenCheckOrder ==
    Validated =>
        \A p, q \in 1..Len(fieldResults) :
            p < q =>
                \/ rowOf(fieldResults[p]) < rowOf(fieldResults[q])
                \/ /\ rowOf(fieldResults[p]) = rowOf(fieldResults[q])
                   /\ checkOrder[fieldResults[p].type] <= checkOrder[fieldResults[q].type]

\* ---------------------------------------------------------------- edits and re-validation

\* DataGrid.handleSave(rowIndex, columnKey) on the tab activeTab with the text
\* editValue in the edit box (rowIndex counts from 1 here)
handleSave(activeTab, rowIndex, columnKey, editValue) ==
    LET data == CASE activeTab = "clients" -> clients
                  [] activeTab = "workers" -> workers
                  [] OTHER -> tasks
        row == data[rowIndex]
        id == row[IF activeTab = "clients" THEN "ClientID"
                  ELSE IF activeTab = "workers" THEN "WorkerID" ELSE "TaskID"]
        updates == [f \in {columnKey} |-> editValue]
    IN  /\ clients' = IF activeTab = "clients" THEN updateClient(clients, id, updates) ELSE clients
        /\ workers' = IF activeTab = "workers" THEN updateWorker(workers, id, updates) ELSE workers
        /\ tasks' = IF activeTab = "tasks" THEN updateTask(tasks, id, updates) ELSE tasks
        /\ page' = [page EXCEPT !.grid.editingCell = Null, !.grid.editValue = <<>>]
        /\ lastCall' = "handleSave"
        /\ UNCHANGED <<businessRules, validationResults, validationFailed, corrections,
                       suggestions, ruleSuggestions, naturalLanguageRule, parsedRule, clock>>

\* parseInt(result.entityId?.split('-')[1] || '3')
quickFixValue(entityId) ==
    LET parts == split(entityId.s, "-")
    IN  parseInt(IF entityId # Undefined /\ Len(parts) >= 2 /\ parts[2] # <<>>
                 THEN Str(parts[2]) ELSE Str(<<"3">>))

\* ValidationPanel.handleQuickFix(validationResults[k]); split is missing on an
\* entityId that is neither a string nor undefined, and the handler throws.
handleQuickFix(k) ==
    LET result == validationResults[k]
        returns == ~result.fixable \/ result.suggestion.text = ""
        priority == ~returns /\ result.type = "out_of_range" /\ result.field = "PriorityLevel"
        throws == priority /\ result.entityId.t \notin {"string", "undefined"}
        fixedValue == MathMax(Num(1), MathMin(Num(5), quickFixValue(result.entityId)))
    IN  /\ clients' =
              IF returns \/ throws THEN clients
              ELSE IF priority
              THEN updateClient(clients, result.entityId, [f \in {"PriorityLevel"} |-> fixedValue])
              ELSE IF result.type = "broken_json" /\ result.field = "AttributesJSON"
              THEN updateClient(clients, result.entityId,
                                [f \in {"AttributesJSON"} |-> Str(<<"{","}">>)])
              ELSE clients
        /\ workers' =
              IF ~returns /\ ~priority
                 /\ ~(result.type = "broken_json" /\ result.field = "AttributesJSON")
                 /\ result.type = "malformed_list" /\ result.field = "AvailableSlots"
              THEN updateWorker(workers, result.entityId,
                                [f \in {"AvailableSlots"} |-> Str(<<"[","1",",","2",",","3",",","4",",","5","]">>)])
              ELSE workers
        /\ lastCall' = "handleQuickFix"
        /\ UNCHANGED <<page, tasks, businessRules, validationResults, validationFailed, corrections,
                       suggestions, ruleSuggestions, naturalLanguageRule, parsedRule, clock>>

\* the cells edited and the texts typed
EditColumns == [clients |-> "PriorityLevel", workers |-> "AvailableSlots", tasks |-> "Duration"]
EditValues == {Str(<<"7">>)}
rowsOfTab(activeTab) == CASE activeTab = "clients" -> clients
                          [] activeTab = "workers" -> workers
                          [] OTHER -> tasks
SaveEdit == \E activeTab \in DOMAIN EditColumns, editValue \in EditValues :
                \E rowIndex \in 1..Len(rowsOfTab(activeTab)) :
                    handleSave(activeTab, rowIndex, EditColumns[activeTab], editValue)
QuickFix == \E k \in 1..Len(validationResults) : handleQuickFix(k)
\* the files of the session: one of clients and one of workers, of one row
SessionFiles == {file \in Files : file.marker \in {Str(<<"C","b">>), Str(<<"W","a">>)}}
UploadSessionFile == \E file \in SessionFiles : onDrop(parsedFile(file, 1))
NextSession ==
    UploadSessionFile \/ SaveEdit \/ handleGenerateSuggestions \/ ApplySuggestion \/ QuickFix
SpecSession == InitUpload /\ [][NextSession]_vars

\* C19: after any sequence of uploads, grid edits, applied suggestions and
\* quick fixes, the stored validation results are the result of validateData
\* on the current clients, workers and tasks.
C19_ResultsFollowTheStore ==
    /\ lastCall \in {"onDrop", "handleSave", "handleApplySuggestion", "handleQuickFix"}
    /\ ~validationFailed /\ ~validateDataThrows(store)
    => validationResults = validateData(store)

\* ---------------------------------------------------------------- export

\* validationResults.some(r => r.severity === 'error'), on the page's copy
hasErrors == \E k \in 1..Len(page.validationResults) :
                 page.validationResults[k].severity = "error"
hasData == Len(clients) > 0 \/ Len(workers) > 0 \/ Len(tasks) > 0

\* an Export button that errors do not disable
exportDisabledWhileProcessingOrEmpty == page.isProcessing \/ ~hasData

\* the Export button's disabled attribute
exportDisabled == page.isProcessing \/ hasErrors \/ ~hasData

\* DataAlchemist.handleExport: it has no await, so isProcessing is true only
\* inside the call; exportCSV downloads a file for a collection with rows
handleExport ==
    /\ page' = [page EXCEPT
                   !.isProcessing = FALSE,
                   !.downloads = @ \cup (IF Len(clients) > 0 THEN {"clients-cleaned.csv"} ELSE {})
                                   \cup (IF Len(workers) > 0 THEN {"workers-cleaned.csv"} ELSE {})
                                   \cup (IF Len(tasks) > 0 THEN {"tasks-cleaned.csv"} ELSE {})
                                   \cup {"business-rules.json", "export-report.json"}]
    /\ lastCall' = "handleExport"
    /\ UNCHANGED <<clients, workers, tasks, businessRules, validationResults,
                   validationFailed, corrections, suggestions, ruleSuggestions,
                   naturalLanguageRule, parsedRule, clock>>

\* a click on the Export button, which a disabled button does not deliver
clickExport == ~exportDisabled /\ handleExport

\* complete files of the three kinds: clients in and out of the priority
\* range, a worker within and beyond the capacity of its slots, a task (its
\* file has no RequiredSkills header: with one, detectEntityType says workers)
PageFiles == {
    File(<<<<"C","l","i","e","n","t","I","D">>, <<"C","l","i","e","n","t","N","a","m","e">>, <<"P","r","i","o","r","i","t","y","L","e","v","e","l">>, <<"R","e","q","u","e","s","t","e","d","T","a","s","k","I","D","s">>,
           <<"G","r","o","u","p","T","a","g">>, <<"A","t","t","r","i","b","u","t","e","s","J","S","O","N">>>>,
         <<Str(<<"C","p">>), Str(<<"A","c","m","e">>), priority, Str(<<"T","p">>), Str(<<"g","o","l","d">>), Str(<<"{","}">>)>>,
         "clients", {}, Str(<<"C","p">>)) : priority \in {Str(<<"3">>), Str(<<"9">>)} }
    \cup {
    File(<<<<"W","o","r","k","e","r","I","D">>, <<"W","o","r","k","e","r","N","a","m","e">>, <<"S","k","i","l","l","s">>, <<"A","v","a","i","l","a","b","l","e","S","l","o","t","s">>,
           <<"M","a","x","L","o","a","d","P","e","r","P","h","a","s","e">>, <<"W","o","r","k","e","r","G","r","o","u","p">>, <<"Q","u","a","l","i","f","i","c","a","t","i","o","n","L","e","v","e","l">>>>,
         <<Str(<<"W","p">>), Str(<<"A","n","n">>), Str(<<"s","q","l">>), Str(<<"[","1","]">>), load, Str(<<"o","p","s">>),
           Str(<<"3">>)>>,
         "workers", {}, Str(<<"W","p">>)) : load \in {Str(<<"1">>), Str(<<"4">>)} }
    \cup {
    File(<<<<"T","a","s","k","I","D">>, <<"T","a","s","k","N","a","m","e">>, <<"C","a","t","e","g","o","r","y">>, <<"D","u","r","a","t","i","o","n">>, <<"P","r","e","f","e","r","r","e","d","P","h","a","s","e","s">>,
           <<"M","a","x","C","o","n","c","u","r","r","e","n","t">>>>,
         <<Str(<<"T","p">>), Str(<<"B","u","i","l","d">>), Str(<<"d","e","v">>), Str(<<"2">>), Str(<<"1">>), Str(<<"1">>)>>,
         "tasks", {"RequiredSkills"}, Str(<<"T","p">>)) }
UploadPageFile == \E file \in PageFiles, n \in 1..MaxFileRows : onDrop(parsedFile(file, n))
NextPage == UploadPageFile \/ clickExport
SpecPage == InitUpload /\ [][NextPage]_vars

\* the page holds no result of severity error; some collection has rows
NoErrorHeld == \A k \in 1..Len(page.validationResults) :
                   page.validationResults[k].severity \in {"warning", "info"}
SomeRows == clients # <<>> \/ workers # <<>> \/ tasks # <<>>

\* C20: export is blocked by errors: handleExport runs only from a state in
\* which the results held by the page have no result of severity error, no
\* export is in progress and some collection is non-empty; and results of
\* warnings and info only do not block it.
C20_ExportBlockedByErrors ==
    /\ [][lastCall' = "handleExport" => NoErrorHeld /\ ~page.isProcessing /\ SomeRows]_vars
    /\ [](NoErrorHeld /\ ~page.isProcessing /\ SomeRows => ENABLED clickExport)

\* an export ran while the page held results, all of them warnings or info
C20_Witness ==
    /\ lastCall = "handleExport"
    /\ page.validationResults # <<>>
    /\ NoErrorHeld
    /\ "workers-cleaned.csv" \in page.downloads

\* ---------------------------------------------------------------- RulesBuilder

\* text.toLowerCase() on an argument that is not a string: parseRuleFromText rejects
parseRuleFromTextThrows(text) == text.t # "string"

\* addBusinessRule
addBusinessRule(rules, rule) == Append(rules, rule)

\* RulesBuilder.handleNaturalLanguageRule: the parser is called as
\* parseRuleFromText(), its text argument undefined
handleNaturalLanguageRule ==
    LET text == Undefined
        rule == parseRuleFromText(text.s, clock)
    IN  /\ IF trim(naturalLanguageRule) = <<>>
           THEN UNCHANGED <<businessRules, naturalLanguageRule, page>>
           ELSE IF parseRuleFromTextThrows(text)
           THEN /\ page' = [page EXCEPT !.alert = "Failed to parse the rule. Please try again."]
                /\ UNCHANGED <<businessRules, naturalLanguageRule>>
           ELSE IF rule # Null
           THEN /\ businessRules' = addBusinessRule(businessRules, rule)
                /\ naturalLanguageRule' = <<>>
                /\ UNCHANGED page
           ELSE /\ page' = [page EXCEPT
                               !.alert = "Could not parse the rule. Please try a different format."]
                /\ UNCHANGED <<businessRules, naturalLanguageRule>>
        /\ lastCall' = "handleNaturalLanguageRule"
        /\ UNCHANGED <<clients, workers, tasks, validationResults, validationFailed,
                       corrections, suggestions, ruleSuggestions, parsedRule, clock>>

SpecNaturalRule == InitParse /\ [][handleNaturalLanguageRule]_vars

\* the sentence matches a recognized intent
Recognized(sentence) ==
    \E fs \in FragmentLists :
        sentenceOf(fs) = sentence /\ \E k \in 1..Len(intentOrder) : Complete(intentOrder[k], fs)

\* C21: when a non-empty sentence that matches a recognized intent is
\* submitted, handleNaturalLanguageRule appends the rule parsed from that
\* sentence to businessRules and clears the input; when the sentence matches
\* no intent, no rule is added and the user is told it could not be parsed.
C21_SentenceBecomesRule ==
    [][lastCall' = "handleNaturalLanguageRule" /\ trim(naturalLanguageRule) # <<>> =>
          IF Recognized(naturalLanguageRule)
          THEN /\ Len(businessRules') = Len(businessRules) + 1
               /\ SubSeq(businessRules', 1, Len(businessRules)) = businessRules
               /\ businessRules'[Len(businessRules')].description = naturalLanguageRule
               /\ naturalLanguageRule' = <<>>
          ELSE /\ businessRules' = businessRules
               /\ page'.alert \in {"Could not parse the rule. Please try a different format.",
                                   "Failed to parse the rule. Please try again."}]_vars

\* ---------------------------------------------------------------- pairs of task ids

MaxPairRows == 3

\* RequestedTaskIDs with and without a hyphen in the ids
PairRequests == {Str(<<>>), Str(<<"T","1",",","T","2">>), Str(<<"T","-","1",",","T","-","2">>), Str(<<"T","2",",","X","-","1">>)}
InitPairs ==
    \E reqs \in SeqsOf(PairRequests, 1, MaxPairRows) :
        InitWith([i \in 1..Len(reqs) |-> clientRow(Str(<<"C","1">>), Str(<<"3">>), reqs[i], Str(<<"{","}">>))],
                 <<>>, <<>>, <<>>)
SpecPairs == InitPairs /\ [][generateRuleSuggestions]_vars

\* C22: every co-run suggestion of generateRuleRecommendations names exactly
\* the two task ids of a qualifying pair: data.tasks has two elements, both
\* task ids that at least two clients request together, also for ids with a
\* hyphen.
C22_CoRunNamesThePair ==
    lastCall = "generateRuleRecommendations" =>
        \A k \in 1..Len(coRunSuggestions) :
            LET named == coRunSuggestions[k].data.tasks
            IN  /\ Len(named) = 2
                /\ Cardinality({i \in 1..Len(clients) :
                       {named[1], named[2]} \subseteq requestedIds(clients[i])}) >= 2

\* ---------------------------------------------------------------- quick fix of a priority

MaxFixRows == 2

\* PriorityLevel values with their number, and client ids with and without a hyphen
FixPriorities == {[value |-> Num(7), number |-> 7], [value |-> Num(-2), number |-> -2],
                  [value |-> Str(<<"0">>), number |-> 0], [value |-> Num(3), number |-> 3]}
FixIds == {Str(<<"C","1">>), Str(<<"C","-","7">>)}
FixClients == {clientRow(id, p.value, Str(<<>>), Str(<<"{","}">>)) : id \in FixIds, p \in FixPriorities}
InitFix == \E c \in SeqsOf(FixClients, 1, MaxFixRows) : InitWith(c, <<>>, <<>>, <<>>)
SpecFix == InitFix /\ [][Validate \/ QuickFix]_vars

priorityNumber(client) ==
    (CHOOSE p \in FixPriorities : p.value = client.PriorityLevel).number

\* C23: after handleQuickFix on an out_of_range result for PriorityLevel, the
\* PriorityLevel of the client it changed is the integer in 1..5 that is the
\* client's previous PriorityLevel clamped into [1,5], for every ClientID.
C23_QuickFixClampsPriority ==
    [][lastCall' = "handleQuickFix" =>
          \A i \in 1..Len(clients) :
              clients'[i] # clients[i] =>
                  clients'[i].PriorityLevel = Num(clamp(priorityNumber(clients[i])))]_vars

\* ---------------------------------------------------------------- canonical files

\* the expected header list of a kind as the header line of a file
canonicalHeaders(kind) ==
    [k \in 1..Len(EXPECTED_HEADERS[kind]) |-> chars[EXPECTED_HEADERS[kind][k]]]

\* files with exactly the canonical headers of their kind; the id of their
\* rows names the kind
CanonicalFiles ==
    {File(canonicalHeaders("clients"),
          <<Str(<<"C","q">>), Str(<<"A","c","m","e">>), priority, Str(<<>>), Str(<<"g","o","l","d">>), attributes>>,
          "clients", {}, Str(<<"C","q">>)) :
        priority \in {Str(<<"3">>), Str(<<"9">>), Str(<<"0">>)},
        attributes \in {Str(<<"{","}">>), Str(<<"{","a">>)}}
    \cup
    {File(canonicalHeaders("workers"),
          <<Str(<<"W","q">>), Str(<<"A","n","n">>), Str(<<"s","q","l">>), slots, load, Str(<<"o","p","s">>), Str(<<"3">>)>>,
          "workers", {}, Str(<<"W","q">>)) :
        slots \in {Str(<<"[","1","]">>), Str(<<"b","a","d">>)}, load \in {Str(<<"1">>), Str(<<"4">>)}}
    \cup
    {File(canonicalHeaders("tasks"),
          <<Str(<<"T","q">>), Str(<<"B","u","i","l","d">>), Str(<<"d","e","v">>), duration, Str(<<"s","q","l">>), Str(<<"1">>),
            Str(<<"1">>)>>,
          "tasks", {}, Str(<<"T","q">>)) : duration \in {Str(<<"2">>), Str(<<"0">>)}}
UploadCanonicalFile ==
    \E file \in CanonicalFiles, n \in 1..MaxFileRows : onDrop(parsedFile(file, n))
SpecCanonical == InitUpload /\ [][UploadCanonicalFile]_vars

markersOf(kind) == {file.marker : file \in {f \in CanonicalFiles : f.kind = kind}}

\* C24: detectEntityType returns 'clients', 'workers' and 'tasks' on the
\* expected header lists of clients, of workers and of tasks, so that the
\* rows of an uploaded file with the canonical headers of a kind are stored
\* in the collection of that kind.
C24_CanonicalHeadersDetected ==
    lastCall = "onDrop" =>
        /\ \A kind \in {"clients", "workers", "tasks"} :
              detectEntityType(canonicalHeaders(kind)) = kind
        /\ \A kind \in {"clients", "workers", "tasks"} :
              \A i \in 1..Len(rowsOfKind(kind)) :
                  rowsOfKind(kind)[i][idFieldOf(kind)] \in markersOf(kind)

\* ---------------------------------------------------------------- DataGrid

\* getData() of the grid's tab
getData == rowsOfTab(page.grid.activeTab)

\* Object.keys(row): the rows have their keys in the order of the expected headers
keysOfRow(activeTab) == EXPECTED_HEADERS[activeTab]

\* Object.values(row).some(value => String(value).toLowerCase().includes(searchLower))
rowMatches(row, searchQuery) ==
    \E key \in DOMAIN row : includes(toLowerCase(ToStr(row[key])), toLowerCase(searchQuery))

\* filteredData: the rows handed to the grid
filteredData ==
    IF trim(page.grid.searchQuery) = <<>> THEN getData
    ELSE SelectSeq(getData, LAMBDA row : rowMatches(row, page.grid.searchQuery))

\* the record whose cells renderCell shows in the grid's row rowIdx:
\* const data = getData(); const row = data[rowIdx]
renderedRow(rowIdx) == getData[rowIdx]

\* the state of the store and of the panels, which the grid's own state changes leave alone
gridLeaves == <<clients, workers, tasks, businessRules, validationResults, validationFailed,
                corrections, suggestions, ruleSuggestions, naturalLanguageRule, parsedRule,
                clock>>

\* the search box's onChange
setSearchQuery(query) ==
    /\ page' = [page EXCEPT !.grid.searchQuery = query]
    /\ lastCall' = "setSearchQuery"
    /\ UNCHANGED gridLeaves

\* a click on a tab of the grid
setActiveTab(tab) ==
    /\ page' = [page EXCEPT !.grid.activeTab = tab]
    /\ lastCall' = "setActiveTab"
    /\ UNCHANGED gridLeaves

\* DataGrid.handleEdit(rowIndex), as the edit icon calls it: without a column
\* key, so the key is the row's first; rowIndex counts from 1 here
handleEdit(rowIndex) ==
    LET row == getData[rowIndex]
        key == keysOfRow(page.grid.activeTab)[1]
    IN  /\ page' = [page EXCEPT
                       !.grid.editingCell = [rowIndex |-> rowIndex, columnKey |-> key],
                       !.grid.editValue = IF Truthy(row[key]) THEN ToStr(row[key]) ELSE <<>>]
        /\ lastCall' = "handleEdit"
        /\ UNCHANGED gridLeaves

\* the edit box's onChange
setEditValue(value) ==
    /\ page.grid.editingCell # Null
    /\ page' = [page EXCEPT !.grid.editValue = value]
    /\ lastCall' = "setEditValue"
    /\ UNCHANGED gridLeaves

\* the edit icons the grid renders: one per row handed to it
ClickEdit == \E rowIdx \in 1..Len(filteredData) : handleEdit(rowIdx)

\* the save button, rendered in the cell of a row and a column of the grid
\* that editingCell names
ClickSave ==
    /\ page.grid.editingCell # Null
    /\ page.grid.editingCell.rowIndex \in 1..Len(filteredData)
    /\ \E k \in 1..Len(keysOfRow(page.grid.activeTab)) :
          keysOfRow(page.grid.activeTab)[k] = page.grid.editingCell.columnKey
    /\ handleSave(page.grid.activeTab, page.grid.editingCell.rowIndex,
                  page.grid.editingCell.columnKey, Str(page.grid.editValue))

MaxGridRows == 3

\* rows with distinct ids and names; a query is listed with the ids of the
\* rows that contain it
GridClients == <<Client(Str(<<"C","1">>), Str(<<"A","c","m","e">>), Str(<<"3">>), Str(<<>>), Str(<<>>), Str(<<"{","}">>)),
                 Client(Str(<<"C","2">>), Str(<<"B","o","l","t">>), Str(<<"3">>), Str(<<>>), Str(<<>>), Str(<<"{","}">>)),
                 Client(Str(<<"C","3">>), Str(<<"B","o","l","t","o","n">>), Str(<<"3">>), Str(<<>>), Str(<<>>), Str(<<"{","}">>)),
                 Client(Str(<<"C","4">>), Str(<<"C","o","r","e">>), Str(<<"3">>), Str(<<>>), Str(<<>>), Str(<<"{","}">>))>>
GridWorkers == <<Worker(Str(<<"W","1">>), Str(<<"A","n","n">>), Str(<<"s","q","l">>), Str(<<"[","1","]">>), Str(<<"1">>),
                        Str(<<"o","p","s">>), Str(<<"3">>))>>
GridQueries == {[query |-> <<>>, ids |-> {}],
                [query |-> <<"B","O","L","T">>, ids |-> {Str(<<"C","2">>), Str(<<"C","3">>)}],
                [query |-> <<"a","c","m","e">>, ids |-> {Str(<<"C","1">>)}]}
GridEditValues == {<<"Z","e","d">>}
InitGrid == \E n \in 1..MaxGridRows : InitWith(SubSeq(GridClients, 1, n), GridWorkers, <<>>, <<>>)
NextGrid ==
    \/ \E q \in GridQueries : setSearchQuery(q.query)
    \/ \E tab \in {"clients", "workers"} : setActiveTab(tab)
    \/ ClickEdit
    \/ \E value \in GridEditValues : setEditValue(value)
    \/ ClickSave
SpecGrid == InitGrid /\ [][NextGrid]_vars

\* the ids of the rows that contain the query typed, as listed
idsContaining(query) == (CHOOSE q \in GridQueries : q.query = query).ids

\* C25: with a non-empty search query, every row whose cells the grid shows
\* is a record of the active collection that contains the query, without
\* regard to case, in some field value; and saving an inline edit on a shown
\* row updates that record in the store and no other.
C25_ShownRowsMatchTheQuery ==
    /\ [](page.grid.activeTab = "clients" /\ page.grid.searchQuery # <<>> =>
             \A rowIdx \in 1..Len(filteredData) :
                 renderedRow(rowIdx).ClientID \in idsContaining(page.grid.searchQuery))
    /\ [][lastCall' = "handleSave" =>
             \A i \in 1..Len(clients) :
                 clients'[i] # clients[i] => i = page.grid.editingCell.rowIndex]_vars

\* C26: any cell of the grid can be edited: whenever the grid shows the rows
\* of the active collection, for every row and every column of it a click on
\* an edit icon can open that cell for editing (typing and saving then write
\* the field that is open, and no other).
C26_EveryCellCanBeOpened ==
    [](trim(page.grid.searchQuery) = <<>> =>
          \A rowIdx \in 1..Len(getData) :
              \A k \in 1..Len(keysOfRow(page.grid.activeTab)) :
                  ENABLED (ClickEdit /\ page'.grid.editingCell =
                               [rowIndex |-> rowIdx,
                                columnKey |-> keysOfRow(page.grid.activeTab)[k]]))

\* the kinds of entity that ValidationResult declares
EntityKinds == {"client", "worker", "task"}

\* C27: every result in the list that validateData returns has an entity that
\* is one of 'client', 'worker', 'task', whichever check produced it.
C27_EntityIsSingularKind ==
    lastCall = "validateData" /\ ~validationFailed =>
        \A k \in 1..Len(validationResults) : validationResults[k].entity \in EntityKinds

\* C28: the results that one validateData call returns have pairwise distinct
\* ids, also when a client lists the same task id more than once.
C28_ResultIdsDistinct ==
    lastCall = "validateData" /\ ~validationFailed =>
        \A j, k \in 1..Len(validationResults) :
            validationResults[j].id = validationResults[k].id => j = k

\* ---------------------------------------------------------------- RulesBuilder

\* useDataStore.updateBusinessRule(id, { enabled })
updateBusinessRule(rules, id, enabled) ==
    [k \in 1..Len(rules) |-> IF rules[k].id = id THEN [rules[k] EXCEPT !.enabled = enabled]
                             ELSE rules[k]]

\* useDataStore.removeBusinessRule(id)
removeBusinessRule(rules, id) == SelectSeq(rules, LAMBDA rule : rule.id # id)

MaxRules == 2
MaxClock == 1

rulesLeave == <<clients, workers, tasks, validationResults, validationFailed, corrections,
                suggestions, naturalLanguageRule, parsedRule, clock, page>>

\* RulesBuilder.handleAddManualRule
handleAddManualRule ==
    /\ Len(businessRules) < MaxRules
    /\ businessRules' = addBusinessRule(businessRules,
           BusinessRule(<<"r","u","l","e","-">> \o NumToStr(clock), "coRun", TRUE,
                        <<"N","e","w"," ","b","u","s","i","n","e","s","s"," ","r","u","l","e">>, <<>>))
    /\ lastCall' = "handleAddManualRule"
    /\ UNCHANGED <<ruleSuggestions, rulesLeave>>

\* RulesBuilder.handleDeleteRule(rule.id), the delete button of a listed rule
handleDeleteRule(id) ==
    /\ businessRules' = removeBusinessRule(businessRules, id)
    /\ lastCall' = "handleDeleteRule"
    /\ UNCHANGED <<ruleSuggestions, rulesLeave>>

\* RulesBuilder.handleToggleRule(rule.id, e.target.checked), the checkbox of a listed rule
handleToggleRule(id, enabled) ==
    /\ businessRules' = updateBusinessRule(businessRules, id, enabled)
    /\ lastCall' = "handleToggleRule"
    /\ UNCHANGED <<ruleSuggestions, rulesLeave>>

\* RulesBuilder.handleApplySuggestion(ruleSuggestions[k])
handleApplyRuleSuggestion(k) ==
    LET s == ruleSuggestions[k]
    IN  /\ Len(businessRules) < MaxRules
        /\ businessRules' =
              IF s.action = "add_co_run_rule"
              THEN addBusinessRule(businessRules,
                       BusinessRule(<<"c","o","-","r","u","n","-">> \o NumToStr(clock), "coRun", TRUE, s.message,
                                    [tasks |-> s.data.tasks]))
              ELSE IF s.action = "add_load_limit_rule"
              THEN addBusinessRule(businessRules,
                       BusinessRule(<<"l","o","a","d","-","l","i","m","i","t","-">> \o NumToStr(clock), "loadLimit", TRUE,
                                    s.message,
                                    [group |-> s.data.group, maxLoad |-> s.data.suggestedLimit]))
              ELSE businessRules
        /\ ruleSuggestions' = SelectSeq(ruleSuggestions, LAMBDA sug : sug.id # s.id)
        /\ lastCall' = "handleApplySuggestion"
        /\ UNCHANGED rulesLeave

\* Date.now() moves on
Tick ==
    /\ clock < MaxClock
    /\ clock' = clock + 1
    /\ UNCHANGED <<clients, workers, tasks, businessRules, validationResults, validationFailed,
                   corrections, suggestions, ruleSuggestions, naturalLanguageRule, parsedRule,
                   lastCall, page>>

DeleteRule == \E k \in 1..Len(businessRules) : handleDeleteRule(businessRules[k].id)
ToggleRule == \E k \in 1..Len(businessRules) :
                  handleToggleRule(businessRules[k].id, ~businessRules[k].enabled)
ApplyRuleSuggestion == \E k \in 1..Len(ruleSuggestions) : handleApplyRuleSuggestion(k)

\* two clients that request T1 and T2 together, and an overloaded group
InitRules ==
    InitWith(<<clientRow(Str(<<"C","1">>), Str(<<"3">>), Str(<<"T","1",",","T","2">>), Str(<<"{","}">>)),
               clientRow(Str(<<"C","2">>), Str(<<"3">>), Str(<<"T","1",",","T","2">>), Str(<<"{","}">>))>>,
             <<workerRow(Str(<<"W","1">>), Str(<<"s","q","l">>), Str(<<"[","1","]">>), Num(4), Str(<<"o","p","s">>))>>,
             <<>>, <<"T","a","s","k","s"," ","T","1"," ","a","n","d"," ","T","2"," ","m","u","s","t"," ","r","u","n"," ","t","o","g","e","t","h","e","r">>)
NextRules ==
    \/ generateRuleSuggestions
    \/ handleAddManualRule
    \/ ApplyRuleSuggestion
    \/ handleNaturalLanguageRule
    \/ DeleteRule
    \/ ToggleRule
    \/ Tick
SpecRules == InitRules /\ [][NextRules]_vars

\* C29: the rules in the store have pairwise distinct ids, whatever rules the
\* RulesBuilder added, removed or updated and also when two rules are created
\* in the same millisecond; a delete removes one rule and a toggle changes one.
C29_RuleIdsDistinct ==
    /\ [](\A j, k \in 1..Len(businessRules) :
             businessRules[j].id = businessRules[k].id => j = k)
    /\ [][/\ lastCall' = "handleDeleteRule" => Len(businessRules') = Len(businessRules) - 1
          /\ lastCall' = "handleToggleRule" =>
                Cardinality({k \in 1..Len(businessRules) :
                                businessRules'[k] # businessRules[k]}) = 1]_vars

\* ---------------------------------------------------------------- overlapping drops

MaxDrops == 2

\* An onDrop invocation runs up to its `await parseCSVFile(file)` in the task
\* of the drop event and the rest in the task in which the read completes:
\* the awaits of validateData wait for no event, so nothing else runs between
\* the read's completion and the end of the invocation.  page.upload.pending
\* holds, for every invocation that awaits its read, the parsed file that the
\* read will deliver.

\* FileUpload.onDrop, from its first line to the await of the file's read
onDropStart(parsedData) ==
    /\ Len(page.upload.pending) < MaxDrops
    /\ page' = [page EXCEPT !.upload.isProcessing = TRUE,
                            !.upload.pending = Append(@, parsedData)]
    /\ lastCall' = "onDrop started"
    /\ UNCHANGED <<clients, workers, tasks, businessRules, validationResults, validationFailed,
                   corrections, suggestions, ruleSuggestions, naturalLanguageRule, parsedRule,
                   clock>>

\* FileUpload.onDrop with no file left after the filter on the names
onDropNoFiles ==
    /\ page' = [page EXCEPT !.upload.isProcessing = FALSE]
    /\ lastCall' = "onDrop without files"
    /\ UNCHANGED <<clients, workers, tasks, businessRules, validationResults, validationFailed,
                   corrections, suggestions, ruleSuggestions, naturalLanguageRule, parsedRule,
                   clock>>

\* FileUpload.onDrop, from the completion of the read of the k-th waiting
\* invocation to its last line
onDropResume(k) ==
    \E parsedData \in {page.upload.pending[k]} :
    \E upload \in {[isProcessing |-> FALSE,
                    pending |-> SubSeq(page.upload.pending, 1, k - 1)
                                \o SubSeq(page.upload.pending, k + 1,
                                          Len(page.upload.pending))]} :
    \E entityType \in {detectEntityType(parsedData.headers)} :
        IF parsedData.data = <<>> \/ entityType = "unknown"
        THEN /\ lastCall' = "onDrop failed"
             /\ page' = [page EXCEPT !.upload = upload]
             /\ UNCHANGED <<clients, workers, tasks, validationFailed, validationResults>>
             /\ UNCHANGED <<businessRules, corrections, suggestions, ruleSuggestions,
                            naturalLanguageRule, parsedRule, clock>>
        ELSE \E transformedData \in {transformData(parsedData.data, entityType)} :
             /\ clients' = IF entityType = "clients" THEN transformedData ELSE clients
             /\ workers' = IF entityType = "workers" THEN transformedData ELSE workers
             /\ tasks' = IF entityType = "tasks" THEN transformedData ELSE tasks
             /\ \E context \in {ValidationContext(clients', workers', tasks')} :
                    IF validateDataThrows(context)
                    THEN /\ validationFailed' = TRUE
                         /\ page' = [page EXCEPT !.upload = upload]
                         /\ UNCHANGED validationResults
                    ELSE /\ validationFailed' = FALSE
                         /\ validationResults' = validateData(context)
                         /\ page' = [handleValidationComplete(validationResults')
                                        EXCEPT !.upload = upload]
             /\ lastCall' = "onDrop"
             /\ UNCHANGED <<businessRules, corrections, suggestions, ruleSuggestions,
                            naturalLanguageRule, parsedRule, clock>>

\* the files dropped: a clients file, a workers file and a tasks file, with
\* one row or without rows
DropFiles == {file \in Files : file.marker \in {Str(<<"C","b">>), Str(<<"W","a">>), Str(<<"T","a">>)}}
DropStarts == \E file \in DropFiles, n \in 0..1 : onDropStart(parsedFile(file, n))
ReadCompletes == \E k \in 1..Len(page.upload.pending) : onDropResume(k)
NextDrops == DropStarts \/ onDropNoFiles \/ ReadCompletes
SpecDrops == InitUpload /\ [][NextDrops]_vars

\* C30: isProcessing is true in every state in which some onDrop invocation
\* has started and not finished; and when all have finished, isProcessing is
\* false and, if a file of the invocation that finished last succeeded, the
\* stored validation results are validateData of the stored collections.
C30_ProcessingWhileAnyDropRuns ==
    /\ page.upload.pending # <<>> => page.upload.isProcessing
    /\ page.upload.pending = <<>> =>
          /\ ~page.upload.isProcessing
          /\ lastCall = "onDrop" =>
                /\ ~validateDataThrows(store)
                /\ validationResults = validateData(store)
====
